---- MODULE Spec2Model ----
(***************************************************************************)
(* LUNA testbench: run registry import, log parsing and the reconciliation *)
(* that links an ingested log file to its registry entry.                  *)
(*                                                                         *)
(* Text is a sequence of tokens; " " is the blank token.  An optional      *)
(* value (Python None, SQL NULL) is the empty sequence, a present value v  *)
(* is <<v>>.  The database is the committed content of the three tables;   *)
(* the work of an open transaction lives inside the operators that model   *)
(* one file's ingest and is either committed or rolled back by them.       *)
(***************************************************************************)
EXTENDS Integers, Sequences, FiniteSets, TLC

VARIABLES
    run_registry,   \* table run_registry, in registry_id order
    runs,           \* table runs, in run_id order
    readings,       \* table readings, in insertion order
    pc,             \* "idle" | "loop" | "returned" | "raised"
    n_paths,        \* ingest_logs: how many paths log_paths yields
    log_paths,      \* ingest_logs: base names of the paths iterated so far
    run_ids,        \* ingest_logs: the run_ids list built so far
    result,         \* ingest_logs: the returned list (None while none)
    error,          \* ingest_logs: the exception that left the call ("" while none)
    processed,      \* ingest_logs: loop iterations entered in this call
    call_start,     \* tables as they were when the call began
    last_file,      \* what the last loop iteration saw and did
    last_import,    \* the last import_run_registry calls (same sheet in a row)
    probe,          \* a parser applied to one file, step by step
    labels,         \* table labels, in insertion order
    schema,         \* the statements of migration scripts that took effect
    schema_migrations,  \* table schema_migrations: the versions recorded
    last_call       \* the label import or migration call whose outcome the caller holds

vars == <<run_registry, runs, readings, pc, n_paths, log_paths, run_ids, result,
          error, processed, call_start, last_file, last_import, probe,
          labels, schema, schema_migrations, last_call>>

\* The labels table, the schema and the record of the last call on them.
AuxVars == <<labels, schema, schema_migrations, last_call>>

---------------------------------------------------------------------------
\* Bounds of the model.
MaxSheetRows == 2
MaxFiles == 2
MaxRows == 2

---------------------------------------------------------------------------
\* Optional values and text.
None == <<>>
Some(x) == <<x>>
Val(o) == o[1]

\* The element of a one-element set.  The(F(x) : x \in {e}) is F(e) with e
\* evaluated once.
The(S) == CHOOSE x \in S : TRUE

Range(s) == {s[i] : i \in 1..Len(s)}

RECURSIVE LStrip(_)
LStrip(s) == IF s # <<>> /\ Head(s) = " " THEN LStrip(Tail(s)) ELSE s

RECURSIVE RStrip(_)
RStrip(s) ==
    IF s # <<>> /\ s[Len(s)] = " " THEN RStrip(SubSeq(s, 1, Len(s) - 1)) ELSE s

Strip(s) == RStrip(LStrip(s))

\* SQL TRIM(x): NULL stays NULL, blanks are removed from both ends.
SqlTrim(o) == IF o = None THEN None ELSE Some(Strip(Val(o)))

_clean_str(value) ==
    IF value = None THEN None
    ELSE IF Strip(Val(value)) = <<>> THEN None ELSE Some(Strip(Val(value)))

\* A header name written exactly, and the same name after a blank.
Exact(col) == <<col>>
Padded(col) == <<" ", col>>

\* {name.strip() for name in reader.fieldnames}
StrippedNames(header) == {Strip(h) : h \in header}

\* row.get(col): the dictionary is keyed by the names as written, so a
\* column whose name is padded is not found under col.
RowGet(header, row, col) == IF Exact(col) \in header THEN Some(row[col]) ELSE None

\* File names and sheet cells of the model.
NameA == <<"a", ".csv">>
NameB == <<"b", ".log">>
LogNames == {NameA, NameB}

SeqsUpTo(S, n) == UNION {[1..k -> S] : k \in 0..n}

PaddedA == <<" ">> \o NameA \o <<" ">>

\* The sheets of the registry import on its own: keys blank, plain, padded.
RunIdCells == {<<" ">>, <<"T1">>, <<" ", "T1">>, <<"T2">>}
Sheets == SeqsUpTo([runid : RunIdCells, log_file : {PaddedA}], MaxSheetRows)

\* The sheets imported between ingests: plain keys.
IngestSheets ==
    SeqsUpTo([runid : {<<"T1">>, <<"T2">>}, log_file : {PaddedA, NameB}], MaxSheetRows)

---------------------------------------------------------------------------
\* Time zones.  ZoneInfo(default_tz) is a zone with summer time; offsets
\* are in quarter-hours.  The clock of the log files of the model ticks in
\* quarter-hours: tick 0 is 02:45 on the day the default zone leaves summer
\* time, tick DstEnd is 03:00, winter time.  A tz(N) hint gives a zone of
\* one fixed offset.
DstEnd == 1
SummerOffset == 8
WinterOffset == 4
DefaultZone == [kind |-> "zone", offset |-> WinterOffset]
FixedZone(q) == [kind |-> "fixed", offset |-> q]

\* tzinfo.utcoffset(dt) of a date-time whose wall clock shows tick wall.
UtcOffset(tz, wall) ==
    IF tz.kind = "fixed" THEN tz.offset
    ELSE IF wall < DstEnd THEN SummerOffset ELSE WinterOffset

\* tzinfo.utcoffset(dt) of the default zone for a calendar date of year y
\* and month m. The dates of the model lie in 1902, when the zone kept no
\* summer time, or after 1980, and outside March and October, the months
\* in which the zone changes its offset.
UtcOffsetInMonth(y, m) ==
    IF y >= 1980 /\ m \in 4..9 THEN SummerOffset ELSE WinterOffset

---------------------------------------------------------------------------
\* The calendar of datetime: days are counted from 1970-01-01.

DaysFromCivil(y, m, d) ==
    LET yy == IF m <= 2 THEN y - 1 ELSE y
        era == yy \div 400
        yoe == yy - era * 400
        doy == (153 * (IF m > 2 THEN m - 3 ELSE m + 9) + 2) \div 5 + d - 1
        doe == yoe * 365 + yoe \div 4 - yoe \div 100 + doy
    IN era * 146097 + doe - 719468

CivilFromDays(z) ==
    LET zz == z + 719468
        era == zz \div 146097
        doe == zz - era * 146097
        yoe == (doe - doe \div 1460 + doe \div 36524 - doe \div 146096) \div 365
        doy == doe - (365 * yoe + yoe \div 4 - yoe \div 100)
        mp == (5 * doy + 2) \div 153
        m == IF mp < 10 THEN mp + 3 ELSE mp - 9
    IN [y |-> yoe + era * 400 + (IF m <= 2 THEN 1 ELSE 0),
        m |-> m,
        d |-> doy - (153 * mp + 2) \div 5 + 1]

DaysInMonth(y, m) ==
    IF m = 2 THEN (IF (y % 4 = 0 /\ y % 100 # 0) \/ y % 400 = 0 THEN 29 ELSE 28)
    ELSE IF m \in {4, 6, 9, 11} THEN 30 ELSE 31

\* What datetime(...) and strptime accept.
ValidCivil(t) ==
    /\ t.y \in 1..9999 /\ t.m \in 1..12 /\ t.d \in 1..DaysInMonth(t.y, t.m)
    /\ t.h \in 0..23 /\ t.mi \in 0..59 /\ t.s \in 0..59

---------------------------------------------------------------------------
\* Timestamp text of a sheet or log cell, by its written form:
\*   "empty"    nothing but blanks
\*   "number"   a decimal number, int its integer part, frac / scale its
\*              fraction
\*   "ymd_hms"  YYYY-MM-DD HH:MM:SS    "ymd_hm"  YYYY-MM-DD HH:MM
\*   "ymd"      YYYY-MM-DD             "iso_t"   YYYY-MM-DDTHH:MM:SS, with
\*              or without a UTC offset (quarter-hours)
\*   "iso_z"    YYYY-MM-DDTHH:MM:SSZ   "text"    anything else

StampText(form, int, frac, scale, y, m, d, h, mi, s, offset) ==
    [form |-> form, int |-> int, frac |-> frac, scale |-> scale,
     y |-> y, m |-> m, d |-> d, h |-> h, mi |-> mi, s |-> s, offset |-> offset]

EmptyText == StampText("empty", 0, 0, 1, 0, 0, 0, 0, 0, 0, None)
PlainText == StampText("text", 0, 0, 1, 0, 0, 0, 0, 0, 0, None)
NumberText(int, frac, scale) == StampText("number", int, frac, scale, 0, 0, 0, 0, 0, 0, None)
DateText(form, y, m, d, h, mi, s, offset) ==
    StampText(form, 0, 0, 1, y, m, d, h, mi, s, offset)

\* dt_value.isoformat(): the calendar fields and the UTC offset.
IsoFormat(t, offset) ==
    [form |-> "isoformat", y |-> t.y, m |-> t.m, d |-> t.d,
     h |-> t.h, mi |-> t.mi, s |-> t.s, offset |-> offset]

\* _clean_str on a timestamp cell.
CleanStampText(raw) ==
    IF raw = None \/ Val(raw).form = "empty" THEN None ELSE raw

\* The epoch is taken for 1900-01-01.
SerialFrom1900(text) ==
    LET days == DaysFromCivil(1900, 1, 1) + text.int
        secs == (text.frac * 86400) \div text.scale
        date == CivilFromDays(days)
    IN [y |-> date.y, m |-> date.m, d |-> date.d,
        h |-> secs \div 3600, mi |-> (secs % 3600) \div 60, s |-> secs % 60]

\* dt.datetime(1899, 12, 30) + dt.timedelta(days=numeric)
SerialToDateTime(text) ==
    LET days == DaysFromCivil(1899, 12, 30) + text.int
        secs == (text.frac * 86400) \div text.scale
        date == CivilFromDays(days)
    IN [y |-> date.y, m |-> date.m, d |-> date.d,
        h |-> secs \div 3600, mi |-> (secs % 3600) \div 60, s |-> secs % 60]

\* The fields strptime reads under one of the three explicit formats.
Strptime(text) ==
    [y |-> text.y, m |-> text.m, d |-> text.d,
     h |-> IF text.form = "ymd" THEN 0 ELSE text.h,
     mi |-> IF text.form = "ymd" THEN 0 ELSE text.mi,
     s |-> IF text.form = "ymd_hms" THEN text.s ELSE 0]

\* dt.datetime.fromisoformat(value): the forms it parses.
FromIsoFormat(text) ==
    /\ text.form \in {"ymd_hms", "ymd_hm", "ymd", "iso_t", "iso_z"}
    /\ ValidCivil(Strptime([text EXCEPT !.form =
                              IF @ \in {"iso_t", "iso_z"} THEN "ymd_hms" ELSE @]))

\* A text that no parse accepts is dropped: the result is None.
RegistryNormalizeOrNone(value) ==
    IF value = None THEN None
    ELSE LET text == Val(value) IN
         IF text.form = "number" /\ text.int * text.scale + text.frac > 1000 * text.scale
         THEN LET t == SerialToDateTime(text) IN Some(IsoFormat(t, UtcOffsetInMonth(t.y, t.m)))
         ELSE IF FromIsoFormat(text)
         THEN Some(IsoFormat(Strptime([text EXCEPT !.form =
                                         IF @ \in {"iso_t", "iso_z"} THEN "ymd_hms" ELSE @]),
                             IF text.form = "iso_z" THEN 0
                             ELSE IF text.offset # None THEN Val(text.offset)
                             ELSE UtcOffsetInMonth(text.y, text.m)))
         ELSE None

\* _normalize_timestamp of registry_import.py: serial number, explicit
\* formats, ISO, and the text itself when all of them fail.
RegistryNormalizeTimestamp(value) ==
    IF value = None THEN None
    ELSE LET text == Val(value) IN
         IF text.form = "number" /\ text.int * text.scale + text.frac > 1000 * text.scale
         THEN LET t == SerialToDateTime(text) IN Some(IsoFormat(t, UtcOffsetInMonth(t.y, t.m)))
         ELSE IF text.form \in {"ymd_hms", "ymd_hm", "ymd"} /\ ValidCivil(Strptime(text))
         THEN Some(IsoFormat(Strptime(text), UtcOffsetInMonth(text.y, text.m)))
         ELSE IF FromIsoFormat(text)
         THEN Some(IsoFormat(Strptime([text EXCEPT !.form =
                                         IF @ \in {"iso_t", "iso_z"} THEN "ymd_hms" ELSE @]),
                             IF text.form = "iso_z" THEN 0
                             ELSE IF text.offset # None THEN Val(text.offset)
                             ELSE UtcOffsetInMonth(text.y, text.m)))
         ELSE value

\* The timestamp texts of the model.
StampTexts ==
    {EmptyText, PlainText,
     NumberText(45678, 5, 10), NumberText(45678, 0, 1), NumberText(1000, 0, 1),
     NumberText(1000, 5, 10), NumberText(45839, 25, 100),
     DateText("ymd_hms", 2025, 1, 9, 12, 0, 0, None),
     DateText("ymd_hm", 2025, 7, 9, 12, 30, 0, None),
     DateText("ymd", 2024, 2, 29, 0, 0, 0, None),
     DateText("ymd", 2025, 2, 29, 0, 0, 0, None),
     DateText("ymd_hms", 2025, 13, 1, 10, 0, 0, None),
     DateText("iso_t", 2025, 1, 9, 12, 0, 0, None),
     DateText("iso_t", 2025, 1, 9, 12, 0, 0, Some(0)),
     DateText("iso_t", 2025, 1, 9, 25, 0, 0, None),
     DateText("iso_z", 2025, 1, 9, 12, 0, 0, None)}


---------------------------------------------------------------------------
\* Registry sheet import (services/registry_import.py).

\* One data row of the sheet; a blank key skips the row (None).  A column
\* the sheet does not have gives None.
_map_row(row, source_row_number) ==
    LET external_run_id == _clean_str(Some(row.runid))
        raw == IF "timestamp" \in DOMAIN row THEN Some(row.timestamp) ELSE None
    IN IF external_run_id = None THEN None
       ELSE Some([external_run_id |-> Val(external_run_id),
                  planned_or_recorded_ts |-> RegistryNormalizeTimestamp(CleanStampText(raw)),
                  log_file_ref |-> _clean_str(Some(row.log_file)),
                  source_row_number |-> source_row_number])

\* A skipped row takes no row number: the numbers of the records are dense.
RECURSIVE MapRowsDense(_, _)
MapRowsDense(sheet, idx) ==
    IF sheet = <<>> THEN <<>>
    ELSE LET mapped == _map_row(Head(sheet), idx) IN
         IF mapped = None THEN MapRowsDense(Tail(sheet), idx)
         ELSE <<Val(mapped)>> \o MapRowsDense(Tail(sheet), idx + 1)

\* enumerate(reader, start=2): the k-th data row is sheet row k + 1.
RECURSIVE MapRows(_, _)
MapRows(sheet, idx) ==
    IF sheet = <<>> THEN <<>>
    ELSE LET mapped == _map_row(Head(sheet), idx) IN
         (IF mapped = None THEN <<>> ELSE <<Val(mapped)>>)
             \o MapRows(Tail(sheet), idx + 1)

_parse_registry_csv(sheet) == MapRows(sheet, 2)

KeyIndex(reg, key) ==
    IF \E i \in 1..Len(reg) : reg[i].external_run_id = key
    THEN CHOOSE i \in 1..Len(reg) : reg[i].external_run_id = key
    ELSE 0

\* A REPLACE instead of the DO UPDATE: the row is rewritten, run_id is lost.
UpsertRowReplace(reg, e) ==
    LET i == KeyIndex(reg, e.external_run_id)
        row == [registry_id |-> IF i = 0 THEN Len(reg) + 1 ELSE i,
                external_run_id |-> e.external_run_id,
                planned_or_recorded_ts |-> e.planned_or_recorded_ts,
                log_file_ref |-> e.log_file_ref,
                source_row_number |-> e.source_row_number,
                run_id |-> None]
    IN IF i = 0 THEN Append(reg, row) ELSE [reg EXCEPT ![i] = row]

\* The conflict is resolved on the sheet row, not on external_run_id: a key
\* met again from another row is inserted once more.
UpsertRowByRow(reg, e) ==
    LET i == KeyIndex(reg, e.external_run_id) IN
    IF i = 0 \/ reg[i].source_row_number # e.source_row_number
    THEN Append(reg, [registry_id |-> Len(reg) + 1,
                      external_run_id |-> e.external_run_id,
                      planned_or_recorded_ts |-> e.planned_or_recorded_ts,
                      log_file_ref |-> e.log_file_ref,
                      source_row_number |-> e.source_row_number,
                      run_id |-> None])
    ELSE [reg EXCEPT ![i] = [@ EXCEPT !.log_file_ref = e.log_file_ref]]

\* INSERT ... ON CONFLICT(external_run_id) DO UPDATE SET <the sheet's columns>:
\* registry_id and run_id of an existing row are not in the SET list.
UpsertRow(reg, e) ==
    LET i == KeyIndex(reg, e.external_run_id) IN
    IF i = 0
    THEN Append(reg, [registry_id |-> Len(reg) + 1,
                      external_run_id |-> e.external_run_id,
                      planned_or_recorded_ts |-> e.planned_or_recorded_ts,
                      log_file_ref |-> e.log_file_ref,
                      source_row_number |-> e.source_row_number,
                      run_id |-> None])
    ELSE [reg EXCEPT ![i] = [@ EXCEPT !.planned_or_recorded_ts = e.planned_or_recorded_ts,
                                      !.log_file_ref = e.log_file_ref,
                                      !.source_row_number = e.source_row_number]]

RECURSIVE ApplyRows(_, _)
ApplyRows(reg, entries) ==
    IF entries = <<>> THEN reg
    ELSE ApplyRows(UpsertRow(reg, Head(entries)), Tail(entries))

\* executemany over the entries, in order; returns the table and len(rows).
upsert_entries(reg, entries) ==
    [run_registry |-> ApplyRows(reg, entries), count |-> Len(entries)]

\* import_run_registry: parse, refuse an empty result, upsert and commit.
ImportOutcome(reg, sheet) ==
    The({IF entries = <<>>
         THEN [run_registry |-> reg, count |-> None,
               error |-> "RegistryImportError: No registry rows found"]
         ELSE The({[run_registry |-> up.run_registry, count |-> Some(up.count),
                    error |-> ""] : up \in {upsert_entries(reg, entries)}})
         : entries \in {_parse_registry_csv(sheet)}})

---------------------------------------------------------------------------
\* Log files (services/ingest.py).  A file is missing, a structured CSV
\* (header names as written, then rows) or free text (lines).  Times are
\* ticks of the clock of the model.

Required == {"t_elapsed_s", "temp_c", "rh_pct"}

TimeVals == 0..(MaxRows - 1)

NumCell(v) == [kind |-> "num", v |-> v]
BlankCell == [kind |-> "blank", v |-> 0]
BadCell == [kind |-> "bad", v |-> 0]
CsvCells == {NumCell(v) : v \in TimeVals} \cup {BlankCell}

\* A timestamp cell: blank, text that is no ISO date-time, or an ISO
\* date-time at wall-clock tick v, naive (offset None), with an explicit
\* offset in quarter-hours, or with the suffix Z.
BlankStamp == [kind |-> "blank", v |-> 0, offset |-> None]
BadStamp == [kind |-> "bad", v |-> 0, offset |-> None]
IsoStamp(v, offset) == [kind |-> "iso", v |-> v, offset |-> offset]
ZuluStamp(v) == [kind |-> "iso_z", v |-> v, offset |-> None]

CsvRow(cell, stamp) ==
    [t_elapsed_s |-> cell, temp_c |-> BlankCell, rh_pct |-> NumCell(0), timestamp |-> stamp]
CsvRows == {CsvRow(cell, BlankStamp) : cell \in CsvCells}

\* A line of a device log: a temp_humid_sample at wall-clock tick at (sound,
\* or matching the pattern with an impossible date or a malformed number),
\* a tz(N) hint of N quarter-hours, or any other line.
SampleLine(at) == [kind |-> "sample", at |-> at, q |-> 0, defect |-> "none"]
BadSampleLine(defect) == [kind |-> "sample", at |-> 0, q |-> 0, defect |-> defect]
TzLine(q) == [kind |-> "tz", at |-> 0, q |-> q, defect |-> "none"]
CclkLine(q) == [kind |-> "cclk", at |-> 0, q |-> q, defect |-> "none"]
OtherLine == [kind |-> "other", at |-> 0, q |-> 0, defect |-> "none"]
TextLines ==
    {SampleLine(at) : at \in TimeVals}
        \cup {OtherLine, TzLine(4), CclkLine(-8), TzLine(96), BadSampleLine("date"),
              BadSampleLine("number")}

MissingFile == [exists |-> FALSE, fmt |-> "none", header |-> None, body |-> <<>>]
CsvFile(header, rows) == [exists |-> TRUE, fmt |-> "csv", header |-> header, body |-> rows]
TextFile(lines) == [exists |-> TRUE, fmt |-> "text", header |-> None, body |-> lines]

\* The header row that names the columns cols exactly.
Header(cols) == Some({Exact(c) : c \in cols})

\* Header rows that spell rh_pct or t_elapsed_s otherwise.
HeaderVariants ==
    {Some({Exact("t_elapsed_s"), Exact("temp_c"), n}) :
        n \in {Padded("rh_pct"), Exact("RH_PCT")}}
        \cup {Some({Padded("t_elapsed_s"), Exact("temp_c"), Exact("rh_pct")}),
              Some({Exact("temp_c")})}

\* The timestamp cells of the model.
Stamps ==
    {BlankStamp, BadStamp, ZuluStamp(0)}
        \cup {IsoStamp(v, o) : v \in {0, MaxRows - 1}, o \in {None, Some(0)}}

CsvFiles ==
    {CsvFile(Header(Required), rows) : rows \in SeqsUpTo(CsvRows, MaxRows)}
        \cup {CsvFile(Header(Required \ {"rh_pct"}), <<>>), CsvFile(None, <<>>)}
        \cup {CsvFile(h, rows) : h \in HeaderVariants,
                                 rows \in {<<>>, <<CsvRow(NumCell(0), BlankStamp)>>}}
        \cup {CsvFile(Header(Required \cup {"timestamp"}),
                      <<CsvRow(NumCell(0), a), CsvRow(NumCell(0), b)>>) : a, b \in Stamps}
\* Logs with two time zone hints between two samples.
HintLines == {TzLine(4), TzLine(0), CclkLine(-8)}
TwoHintFiles ==
    {TextFile(<<SampleLine(0), first, second, SampleLine(1)>>) :
        first \in HintLines, second \in HintLines}
TextFiles ==
    {TextFile(lines) : lines \in SeqsUpTo(TextLines, MaxRows)} \cup TwoHintFiles
Files == {MissingFile} \cup CsvFiles \cup TextFiles

\* The files on disk during ingest_logs: k rows or samples, latest first,
\* and files with one defect each.
Latest(k) == [i \in 1..k |-> k - i]
DiskFiles ==
    {MissingFile, CsvFile(None, <<>>), CsvFile(Header(Required \ {"rh_pct"}), <<>>),
     CsvFile(Header(Required), <<CsvRow(BlankCell, BlankStamp)>>),
     CsvFile(Header(Required \cup {"timestamp"}), <<CsvRow(NumCell(0), BadStamp)>>),
     CsvFile(Header(Required \cup {"timestamp"}), <<CsvRow(NumCell(1), IsoStamp(0, None))>>),
     TextFile(<<BadSampleLine("date")>>)}
        \cup {CsvFile(Header(Required),
                      [i \in 1..k |-> CsvRow(NumCell(Latest(k)[i]), BlankStamp)])
                 : k \in 0..MaxRows}
        \cup {TextFile([i \in 1..k |-> SampleLine(Latest(k)[i])]) : k \in 0..MaxRows}

Ok(rs) == [err |-> "", readings |-> rs, missing |-> <<>>]
Fail(msg) == [err |-> msg, readings |-> <<>>, missing |-> <<>>]

\* list.sort(key=t_elapsed_s) left out: the readings stay in file order.
SortUnsorted(rs) == rs

\* list.sort(key=lambda sample: sample.t_elapsed_s): stable, ascending.
RECURSIVE SortByElapsed(_)
SortByElapsed(rs) ==
    IF rs = <<>> THEN <<>>
    ELSE LET x == rs[Len(rs)]
             init == SortByElapsed(SubSeq(rs, 1, Len(rs) - 1))
             le == SelectSeq(init, LAMBDA r : r.t_elapsed_s <= x.t_elapsed_s)
             gt == SelectSeq(init, LAMBDA r : r.t_elapsed_s > x.t_elapsed_s)
         IN le \o <<x>> \o gt

\* dt.timezone(dt.timedelta(minutes=value * 15)): the offset must lie
\* strictly between -24 h and 24 h, else timezone() raises ValueError.
_tz_from_quarters(value) ==
    IF value > -96 /\ value < 96 THEN [err |-> "", tz |-> FixedZone(value)]
    ELSE [err |-> "ValueError: offset must be strictly between -24h and 24h",
          tz |-> DefaultZone]

\* The last line with a tz hint decides.
DetectLastHint(lines) ==
    LET hints == SelectSeq(lines, LAMBDA l : l.kind \in {"tz", "cclk"}) IN
    IF hints = <<>> THEN [err |-> "", tz |-> DefaultZone]
    ELSE _tz_from_quarters(hints[Len(hints)].q)

\* The first line with a tz(N) or +CCLK hint decides; without one, the
\* default zone.
_detect_tzinfo(lines) ==
    LET hints == SelectSeq(lines, LAMBDA l : l.kind \in {"tz", "cclk"}) IN
    IF hints = <<>> THEN [err |-> "", tz |-> DefaultZone]
    ELSE _tz_from_quarters(Head(hints).q)

_empty_to_none(cell) == IF cell = None \/ Val(cell).kind = "blank" THEN None ELSE cell

\* _normalize_timestamp of ingest.py: an aware date-time is the wall-clock
\* tick and the UTC offset its isoformat() shows.
_normalize_timestamp(value) ==
    IF value = None THEN [err |-> "", ts |-> None]
    ELSE IF Val(value).kind = "bad"
    THEN [err |-> "IngestError: Invalid timestamp", ts |-> None]
    ELSE IF Val(value).kind = "iso_z"
    THEN [err |-> "", ts |-> Some([wall |-> Val(value).v, offset |-> 0])]
    ELSE IF Val(value).offset # None
    THEN [err |-> "", ts |-> Some([wall |-> Val(value).v, offset |-> Val(Val(value).offset)])]
    ELSE [err |-> "", ts |-> Some([wall |-> Val(value).v,
                                   offset |-> UtcOffset(DefaultZone, Val(value).v)])]

\* _to_float of ingest.py.
_to_float(value, field, allow_empty) ==
    IF value = None
    THEN [err |-> IF allow_empty THEN "" ELSE "IngestError: Missing t_elapsed_s value",
          val |-> None]
    ELSE IF Val(value).kind = "blank"
    THEN [err |-> IF allow_empty THEN "" ELSE "IngestError: Empty t_elapsed_s value",
          val |-> None]
    ELSE IF Val(value).kind = "num" THEN [err |-> "", val |-> Some(Val(value).v)]
    ELSE [err |-> "IngestError: Invalid numeric value", val |-> None]

\* The header row as csv.DictReader sees it: a text file's first line holds
\* none of the required names, an empty file has no header row.
FieldNames(file) ==
    IF file.fmt = "csv" THEN file.header
    ELSE IF file.body = <<>> THEN None ELSE Some({})

\* sorted(missing)
SortedNames(names) ==
    SelectSeq(<<"rh_pct", "t_elapsed_s", "temp_c">>, LAMBDA n : n \in names)

\* One row of _parse_csv_log: the timestamp first, then the three numbers.
CsvReading(header, row) ==
    LET timestamp == _normalize_timestamp(_empty_to_none(RowGet(header, row, "timestamp")))
        t_elapsed_s == _to_float(RowGet(header, row, "t_elapsed_s"), "t_elapsed_s", FALSE)
        temp_c == _to_float(RowGet(header, row, "temp_c"), "temp_c", TRUE)
        rh_pct == _to_float(RowGet(header, row, "rh_pct"), "rh_pct", TRUE)
    IN IF timestamp.err # "" THEN Fail(timestamp.err)
       ELSE IF t_elapsed_s.err # "" THEN Fail(t_elapsed_s.err)
       ELSE IF temp_c.err # "" THEN Fail(temp_c.err)
       ELSE IF rh_pct.err # "" THEN Fail(rh_pct.err)
       ELSE Ok(<<[t_elapsed_s |-> Val(t_elapsed_s.val), temp_c |-> temp_c.val,
                  rh_pct |-> rh_pct.val, timestamp |-> timestamp.ts]>>)

\* The rows of _parse_csv_log before the sort; the first bad row raises.
RECURSIVE CsvReadings(_, _)
CsvReadings(header, rows) ==
    IF rows = <<>> THEN Ok(<<>>)
    ELSE LET first == CsvReading(header, Head(rows)) IN
         IF first.err # "" THEN first
         ELSE LET rest == CsvReadings(header, Tail(rows)) IN
              IF rest.err # "" THEN rest
              ELSE Ok(first.readings \o rest.readings)

\* The required names that no header name, stripped, is equal to.
MissingColumns(header) == {c \in Required : Exact(c) \notin StrippedNames(header)}

_parse_csv_log(file) ==
    IF ~file.exists THEN Fail("IngestError: Log path does not exist")
    ELSE IF FieldNames(file) = None THEN Fail("IngestError: Missing header row")
    ELSE IF MissingColumns(Val(FieldNames(file))) # {}
    THEN [Fail("IngestError: Missing required columns") EXCEPT
             !.missing = SortedNames(MissingColumns(Val(FieldNames(file))))]
    ELSE LET parsed == CsvReadings(Val(FieldNames(file)),
                                   IF file.fmt = "csv" THEN file.body ELSE <<>>) IN
         IF parsed.err # "" THEN parsed ELSE Ok(SortByElapsed(parsed.readings))

\* path.read_text(...).splitlines(): a file that is not free text has no
\* line that matches any pattern.
Lines(file) == IF file.fmt = "text" THEN file.body ELSE <<>>

\* The lines that match _TEMP_HUMID_PATTERN, in file order.
Samples(file) == SelectSeq(Lines(file), LAMBDA l : l.kind = "sample")

\* The readings of _parse_device_log before the sort: base_dt is the first
\* matched sample; sample_dt - base_dt, both with the same tzinfo object, is
\* the difference of the two wall clocks.
DeviceReadings(samples, tz) ==
    [i \in 1..Len(samples) |->
        [t_elapsed_s |-> samples[i].at - samples[1].at,
         temp_c |-> Some(0), rh_pct |-> Some(0),
         timestamp |-> Some([wall |-> samples[i].at,
                             offset |-> UtcOffset(tz, samples[i].at)])]]

\* The first matched line that datetime() or float() rejects, if any.
FirstDefect(samples) ==
    LET bad == SelectSeq(samples, LAMBDA l : l.defect # "none") IN
    IF bad = <<>> THEN "none" ELSE Head(bad).defect

_parse_device_log(file) ==
    IF ~file.exists THEN Fail("IngestError: Log path does not exist")
    ELSE LET tzinfo == _detect_tzinfo(Lines(file))
         IN IF tzinfo.err # "" THEN Fail(tzinfo.err)
            ELSE IF FirstDefect(Samples(file)) = "date"
            THEN Fail("ValueError: date or time field out of range")
            ELSE IF FirstDefect(Samples(file)) = "number"
            THEN Fail("ValueError: could not convert string to float")
            ELSE Ok(SortByElapsed(DeviceReadings(Samples(file), tzinfo.tz)))

\* pathlib's suffix of a base name, lower-cased.
Suffix(name) == IF Len(name) > 1 THEN name[Len(name)] ELSE ""

_parse_log_file(name, file) ==
    IF Suffix(name) = ".csv" THEN _parse_csv_log(file)
    ELSE IF Suffix(name) = ".log" THEN _parse_device_log(file)
    ELSE Fail("IngestError: Unsupported log format")

\* Only the strictly increasing steps are averaged.
EstimateIncreasingOnly(rs) ==
    IF Len(rs) < 2 THEN None
    ELSE LET idx == SelectSeq([i \in 1..(Len(rs) - 1) |-> i],
                              LAMBDA i : rs[i + 1].t_elapsed_s > rs[i].t_elapsed_s)
         IN IF idx = <<>> THEN None
            ELSE Some([num |-> rs[idx[Len(idx)] + 1].t_elapsed_s - rs[idx[1]].t_elapsed_s,
                       den |-> Len(idx)])

RECURSIVE SumSeq(_)
SumSeq(s) == IF s = <<>> THEN 0 ELSE Head(s) + SumSeq(Tail(s))

\* An interval is the exact quotient num / den of the sum and the count.
_estimate_sampling_interval(rs) ==
    IF Len(rs) < 2 THEN None
    ELSE LET idx == SelectSeq([i \in 1..(Len(rs) - 1) |-> i],
                              LAMBDA i : rs[i + 1].t_elapsed_s >= rs[i].t_elapsed_s)
             deltas == [k \in 1..Len(idx) |->
                          rs[idx[k] + 1].t_elapsed_s - rs[idx[k]].t_elapsed_s]
         IN IF deltas = <<>> THEN None
            ELSE Some([num |-> SumSeq(deltas), den |-> Len(deltas)])

---------------------------------------------------------------------------
\* Storage (storage/repositories.py).  A db value holds the three tables.

Db == [run_registry |-> run_registry, runs |-> runs, readings |-> readings]

Matches(reg, name) ==
    {i \in 1..Len(reg) : SqlTrim(reg[i].log_file_ref) = Some(name)}

\* SELECT * FROM run_registry WHERE TRIM(log_file_ref) = ? ... fetchone():
\* the first matching row of the table scan (lowest registry_id), or None.
find_by_log_file_ref(reg, name) ==
    LET m == Matches(reg, name) IN
    IF m = {} THEN None ELSE Some(reg[CHOOSE i \in m : \A j \in m : i <= j])

\* INSERT INTO runs ...; lastrowid is the next run_id.
create_run(db, metadata) ==
    [db EXCEPT !.runs = Append(@, [run_id |-> Len(@) + 1] @@ metadata)]

NewRunId(db) == Len(db.runs) + 1

insert_readings(db, run_id, rs) ==
    [db EXCEPT !.readings =
        @ \o [i \in 1..Len(rs) |-> [run_id |-> run_id] @@ rs[i]]]

\* The UPDATE has no WHERE clause.
AttachEveryRow(db, registry_id, run_id) ==
    [db EXCEPT !.run_registry =
        [i \in 1..Len(@) |-> [@[i] EXCEPT !.run_id = Some(run_id)]]]

\* The UPDATE takes the first row of the table whatever the registry_id.
AttachFirstRow(db, registry_id, run_id) ==
    [db EXCEPT !.run_registry =
        [i \in 1..Len(@) |->
            IF i = 1 THEN [@[i] EXCEPT !.run_id = Some(run_id)] ELSE @[i]]]

\* UPDATE run_registry SET run_id = ? WHERE registry_id = ?
attach_run(db, registry_id, run_id) ==
    [db EXCEPT !.run_registry =
        [i \in 1..Len(@) |->
            IF @[i].registry_id = registry_id
            THEN [@[i] EXCEPT !.run_id = Some(run_id)] ELSE @[i]]]

\* The connection leaves the with block on an exception and keeps the
\* statements executed so far.
RollbackKeepsPending(committed, pending) == pending

\* Leaving "with get_connection(...) as conn" on an exception rolls the open
\* transaction back: the tables are what the last commit left.
Rollback(committed, pending) == committed

---------------------------------------------------------------------------
\* ingest_logs, one loop iteration (services/ingest.py lines 46-85).

Faults == {"none", "create_run", "insert_readings", "attach_run", "commit"}

Raised(db, pending, err) ==
    [err |-> err, db |-> Rollback(db, pending), run_id |-> None]

\* The already-linked guard is missing.
LinkedGuardOff(entry) == FALSE

\* registry_entry["run_id"] is not None
IsLinked(entry) == entry.run_id # None

\* create_run, insert_readings, attach_run and commit in one transaction;
\* fault names the storage call that raises.
Persist(db, entry, name, rs, fault) ==
    LET metadata == [external_run_id |-> entry.external_run_id,
                     file_name |-> name,
                     start_ts |-> rs[1].timestamp,
                     end_ts |-> rs[Len(rs)].timestamp,
                     sampling_interval_s |-> _estimate_sampling_interval(rs)]
        run_id == NewRunId(db)
        db1 == create_run(db, metadata)
        db2 == insert_readings(db1, run_id, rs)
        db3 == attach_run(db2, entry.registry_id, run_id)
    IN IF fault = "create_run" THEN Raised(db, db, "DatabaseError: create_run")
       ELSE IF fault = "insert_readings"
       THEN Raised(db, db1, "DatabaseError: insert_readings")
       ELSE IF fault = "attach_run" THEN Raised(db, db2, "DatabaseError: attach_run")
       ELSE IF fault = "commit" THEN Raised(db, db3, "DatabaseError: commit")
       ELSE [err |-> "", db |-> db3, run_id |-> Some(run_id)]

\* The file is parsed before the registry is consulted.
IngestFileParseFirst(db, name, file, fault) ==
    LET parsed == _parse_log_file(name, file)
        found == find_by_log_file_ref(db.run_registry, name)
    IN IF parsed.err # "" THEN Raised(db, db, parsed.err)
       ELSE IF parsed.readings = <<>>
       THEN Raised(db, db, "IngestError: No readings parsed")
       ELSE IF found = None
       THEN Raised(db, db, "IngestError: No run_registry entry matches log file")
       ELSE IF IsLinked(Val(found))
       THEN Raised(db, db, "IngestError: already linked")
       ELSE Persist(db, Val(found), name, parsed.readings, fault)

\* Lookup, the two guards, parse, the empty check, then the writes.
IngestFile(db, name, file, fault) ==
    LET found == find_by_log_file_ref(db.run_registry, name) IN
    IF found = None
    THEN Raised(db, db, "IngestError: No run_registry entry matches log file")
    ELSE IF IsLinked(Val(found))
    THEN Raised(db, db, "IngestError: already linked")
    ELSE LET parsed == _parse_log_file(name, file) IN
         IF parsed.err # "" THEN Raised(db, db, parsed.err)
         ELSE IF parsed.readings = <<>>
         THEN Raised(db, db, "IngestError: No readings parsed")
         ELSE Persist(db, Val(found), name, parsed.readings, fault)

---------------------------------------------------------------------------
\* The state machine.

Init ==
    /\ run_registry = <<>>
    /\ runs = <<>>
    /\ readings = <<>>
    /\ pc = "idle"
    /\ n_paths = 0
    /\ log_paths = <<>>
    /\ run_ids = <<>>
    /\ result = None
    /\ error = ""
    /\ processed = 0
    /\ call_start = None
    /\ last_file = None
    /\ last_import = None
    /\ probe = None
    /\ labels = <<>>
    /\ schema = <<>>
    /\ schema_migrations = {}
    /\ last_call = None

CallVars == <<pc, n_paths, log_paths, run_ids, result, error, processed,
              call_start, last_file>>

\* import_run_registry(db_path, file_path): one call, one transaction.
ImportRunRegistry(sheet) ==
    /\ pc = "idle"
    /\ run_registry' = ImportOutcome(run_registry, sheet).run_registry
    /\ UNCHANGED <<runs, readings, CallVars, last_import, probe, AuxVars>>

\* ingest_logs(db_path, log_paths, ...) is entered: run_ids = [], the
\* connection is opened.  log_paths is an iterable of n paths.
IngestLogsCall(n) ==
    /\ pc = "idle"
    /\ pc' = "loop"
    /\ n_paths' = n
    /\ log_paths' = <<>>
    /\ run_ids' = <<>>
    /\ result' = None
    /\ error' = ""
    /\ processed' = 0
    /\ call_start' = Some(Db)
    /\ last_file' = None
    /\ UNCHANGED <<run_registry, runs, readings, last_import, probe, AuxVars>>

\* The exception is swallowed and the loop goes on.
RaiseContinues == "loop"

\* The exception leaves the loop and the call.
RaisePc == "raised"

\* The new id is put at the head of the list.
PrependRunId(ids, run_id) == <<run_id>> \o ids

\* run_ids.append(run_id)
AppendRunId(ids, run_id) == Append(ids, run_id)

\* One iteration of "for log_path in log_paths": the iterable yields the
\* path with base name name; file is what the path holds on disk.
IngestLogsFile(name, file, fault) ==
    /\ pc = "loop"
    /\ processed < n_paths
    /\ fault # "none" => IngestFile(Db, name, file, "none").err = ""
    /\ LET out == IngestFile(Db, name, file, fault)
       IN /\ run_registry' = out.db.run_registry
          /\ runs' = out.db.runs
          /\ readings' = out.db.readings
          /\ processed' = processed + 1
          /\ log_paths' = Append(log_paths, name)
          /\ last_file' = Some([name |-> name, lines |-> Len(file.body),
                                err |-> out.err, run_id |-> out.run_id, pre |-> Db])
          /\ IF out.err = ""
             THEN /\ run_ids' = AppendRunId(run_ids, Val(out.run_id))
                  /\ UNCHANGED <<pc, error>>
             ELSE /\ pc' = RaisePc
                  /\ error' = out.err
                  /\ UNCHANGED run_ids
    /\ UNCHANGED <<n_paths, result, call_start, last_import, probe, AuxVars>>

\* The loop is exhausted: return run_ids.
IngestLogsReturn ==
    /\ pc = "loop"
    /\ processed = n_paths
    /\ pc' = "returned"
    /\ result' = Some(run_ids)
    /\ UNCHANGED <<run_registry, runs, readings, n_paths, log_paths, run_ids, error,
                   processed, call_start, last_file, last_import, probe, AuxVars>>

\* The caller has the list or the exception; the next call may begin.
CallOver ==
    /\ pc \in {"returned", "raised"}
    /\ pc' = "idle"
    /\ n_paths' = 0
    /\ log_paths' = <<>>
    /\ run_ids' = <<>>
    /\ result' = None
    /\ error' = ""
    /\ processed' = 0
    /\ call_start' = None
    /\ last_file' = None
    /\ UNCHANGED <<run_registry, runs, readings, last_import, probe, AuxVars>>

Next ==
    \/ \E sheet \in IngestSheets : ImportRunRegistry(sheet)
    \/ \E n \in 0..MaxFiles : IngestLogsCall(n)
    \/ \E name \in LogNames, file \in DiskFiles, fault \in Faults :
          IngestLogsFile(name, file, fault)
    \/ IngestLogsReturn
    \/ CallOver

Spec == Init /\ [][Next]_vars

---------------------------------------------------------------------------
\* The registry alone: sheets imported one after another, with a record of
\* the sheet imported last and of the table its first import left.

ImportSheet(sheet) ==
    /\ pc = "idle"
    /\ LET out == ImportOutcome(run_registry, sheet)
           again == last_import # None /\ Val(last_import).sheet = sheet
       IN /\ run_registry' = out.run_registry
          /\ last_import' =
                Some([sheet |-> sheet,
                      count |-> out.count,
                      fresh |-> IF again THEN Val(last_import).fresh
                                ELSE run_registry = <<>>,
                      once |-> IF again THEN Val(last_import).once ELSE out.run_registry,
                      twice |-> again])
    /\ UNCHANGED <<runs, readings, CallVars, probe, AuxVars>>

NextRegistry == \E sheet \in Sheets : ImportSheet(sheet)

SpecRegistry == Init /\ [][NextRegistry]_vars

---------------------------------------------------------------------------
\* The parsers alone: one file, parsed by either parser, then the sampling
\* interval of the readings returned.

InitParse ==
    /\ run_registry = <<>>
    /\ runs = <<>>
    /\ readings = <<>>
    /\ pc = "idle"
    /\ n_paths = 0
    /\ log_paths = <<>>
    /\ run_ids = <<>>
    /\ result = None
    /\ error = ""
    /\ processed = 0
    /\ call_start = None
    /\ last_file = None
    /\ last_import = None
    /\ probe \in {[stage |-> "file", file |-> f, rows |-> <<>>, parsed |-> Ok(<<>>),
                   interval |-> None] : f \in Files}
    /\ labels = <<>>
    /\ schema = <<>>
    /\ schema_migrations = {}
    /\ last_call = None

DbVars == <<run_registry, runs, readings, last_import>>

ParseCsvLog ==
    /\ probe.stage = "file"
    /\ probe' = [probe EXCEPT
                    !.stage = "csv",
                    !.rows = IF probe.file.fmt = "csv" /\ probe.file.header # None
                             THEN CsvReadings(Val(probe.file.header), probe.file.body).readings
                             ELSE <<>>,
                    !.parsed = _parse_csv_log(probe.file)]
    /\ UNCHANGED <<DbVars, CallVars, AuxVars>>

ParseDeviceLog ==
    /\ probe.stage = "file"
    /\ probe' = [probe EXCEPT
                    !.stage = "device",
                    !.rows = DeviceReadings(Samples(probe.file),
                                            _detect_tzinfo(Lines(probe.file)).tz),
                    !.parsed = _parse_device_log(probe.file)]
    /\ UNCHANGED <<DbVars, CallVars, AuxVars>>

EstimateSamplingInterval ==
    /\ probe.stage \in {"csv", "device"}
    /\ probe.parsed.err = ""
    /\ probe' = [probe EXCEPT
                    !.stage = "interval",
                    !.interval = _estimate_sampling_interval(probe.parsed.readings)]
    /\ UNCHANGED <<DbVars, CallVars, AuxVars>>

NextParse == ParseCsvLog \/ ParseDeviceLog \/ EstimateSamplingInterval

SpecParse == InitParse /\ [][NextParse]_vars

---------------------------------------------------------------------------
\* Properties of ingest_logs, stated on the iteration that ran last.

LinkedErr == "IngestError: already linked"
NoEntryErr == "IngestError: No run_registry entry matches log file"

\* The entries of reg whose log_file_ref, blanks removed, is the base name.
MatchingEntries(reg, name) ==
    {i \in 1..Len(reg) :
        reg[i].log_file_ref # None /\ Strip(Val(reg[i].log_file_ref)) = name}

FirstMatch(reg, name) ==
    CHOOSE i \in MatchingEntries(reg, name) : \A j \in MatchingEntries(reg, name) : i <= j

\* The file of the last iteration had a match, and the first one was linked.
EntryAlreadyLinked ==
    /\ last_file # None
    /\ LET f == Val(last_file) IN
       /\ MatchingEntries(f.pre.run_registry, f.name) # {}
       /\ f.pre.run_registry[FirstMatch(f.pre.run_registry, f.name)].run_id # None

\* The same entry was the first match, and linked, when the call began.
LinkedBeforeCall ==
    LET f == Val(last_file)
        reg == Val(call_start).run_registry
    IN /\ MatchingEntries(reg, f.name) # {}
       /\ FirstMatch(reg, f.name) = FirstMatch(f.pre.run_registry, f.name)
       /\ reg[FirstMatch(reg, f.name)].run_id # None

\* C1 as stated: ingesting a log file whose matching registry entry already
\* has a run_id fails with an IngestError and the runs, the readings and
\* every entry's run_id are after the failed call what they were before the
\* call.
C1_AsStated ==
    (EntryAlreadyLinked /\ LinkedBeforeCall) =>
        /\ pc = "raised"
        /\ error = LinkedErr
        /\ Db = Val(call_start)

\* C1 amended: ingesting a log file whose registry entry (the first match
\* of the lookup) already has a run_id fails with the already-linked
\* IngestError, and the runs, the readings and every entry's run_id are
\* what they were when that file's iteration began; the runs of earlier
\* files of the same call stay committed.
C1_LinkedEntryFails ==
    EntryAlreadyLinked =>
        /\ pc = "raised"
        /\ error = LinkedErr
        /\ Db = Val(last_file).pre
        /\ Len(runs) = Len(Val(call_start).runs) + Len(run_ids)

\* An already-linked file was refused as the second file of a call whose
\* first file was ingested.
C1_Witness ==
    /\ EntryAlreadyLinked
    /\ LinkedBeforeCall
    /\ pc = "raised"
    /\ Len(run_ids) = 1

\* C2: once an entry's run_id is set, every later step (import or ingest)
\* keeps the entry and that run_id.
C2_RunIdSetOnce ==
    [][\A i \in 1..Len(run_registry) :
          run_registry[i].run_id # None =>
              /\ i <= Len(run_registry')
              /\ run_registry'[i].external_run_id = run_registry[i].external_run_id
              /\ run_registry'[i].run_id = run_registry[i].run_id]_vars

\* A linked entry whose log_file_ref a later import has changed: it no
\* longer names the file its run was ingested from.
C2_Witness ==
    \E i \in 1..Len(run_registry) :
        /\ run_registry[i].run_id # None
        /\ run_registry[i].log_file_ref
              # Some(runs[Val(run_registry[i].run_id)].file_name)

\* C3: a file whose base name matches no entry's log_file_ref fails with
\* the no-registry-entry IngestError whatever the file holds, and the
\* tables are what they were before its iteration.
C3_NoEntryFails ==
    (last_file # None
        /\ MatchingEntries(Val(last_file).pre.run_registry, Val(last_file).name) = {})
    => /\ pc = "raised"
       /\ error = NoEntryErr
       /\ Db = Val(last_file).pre

\* A supported file with rows was refused for want of a registry entry.
C3_Witness ==
    /\ last_file # None
    /\ error = NoEntryErr
    /\ Val(last_file).name = NameA
    /\ Val(last_file).lines > 0
    /\ run_registry # <<>>

\* The committed tables hold a run together with its readings and its
\* registry link, or none of the three.
AllOrNothing(db) ==
    /\ \A r \in 1..Len(db.runs) :
          /\ db.runs[r].run_id = r
          /\ \E k \in 1..Len(db.readings) : db.readings[k].run_id = r
          /\ \E i \in 1..Len(db.run_registry) : db.run_registry[i].run_id = Some(r)
    /\ \A k \in 1..Len(db.readings) : db.readings[k].run_id \in 1..Len(db.runs)
    /\ \A i \in 1..Len(db.run_registry) :
          db.run_registry[i].run_id # None =>
              Val(db.run_registry[i].run_id) \in 1..Len(db.runs)

\* C4: when a file's ingest fails at any step, nothing of that file is
\* persisted, and the tables never hold a run without its readings and its
\* link, nor a reading or a link without its run.
C4_PerFileAtomic ==
    /\ AllOrNothing(Db)
    /\ (last_file # None /\ Val(last_file).err # "") => Db = Val(last_file).pre

\* attach_run raised after create_run and insert_readings had run.
C4_Witness ==
    /\ last_file # None
    /\ Val(last_file).err = "DatabaseError: attach_run"
    /\ pc = "raised"

\* C5: when file k of a call fails, the call raises and returns no list,
\* the runs, readings and links of files 1..k-1 are committed, and no file
\* after k is processed.
C5_EarlierFilesStay ==
    error # "" =>
        /\ pc = "raised"
        /\ result = None
        /\ processed = Len(run_ids) + 1
        /\ Len(log_paths) = processed
        /\ Len(runs) = Len(Val(call_start).runs) + Len(run_ids)
        /\ \A i \in 1..Len(run_ids) :
              /\ run_ids[i] = Len(Val(call_start).runs) + i
              /\ runs[run_ids[i]].file_name = log_paths[i]
              /\ \E k \in 1..Len(readings) : readings[k].run_id = run_ids[i]
              /\ \E j \in 1..Len(run_registry) :
                    run_registry[j].run_id = Some(run_ids[i])

\* The second file of a call failed after the first was committed.
C5_Witness ==
    /\ pc = "raised"
    /\ Len(run_ids) = 1
    /\ Len(runs) = Len(Val(call_start).runs) + 1

\* C6 as stated: a run is created only when exactly one registry entry
\* matches the file's base name and that entry is unlinked.
C6_ExactlyOneMatch ==
    (last_file # None /\ Val(last_file).err = "") =>
        LET f == Val(last_file)
            m == MatchingEntries(f.pre.run_registry, f.name)
        IN /\ Cardinality(m) = 1
           /\ \A i \in m : f.pre.run_registry[i].run_id = None

\* C8: a successful ingest of a file with n >= 1 readings adds exactly one
\* run and n readings tagged with its id, sets the matched entry's run_id to
\* it and no other entry's, and stores the entry's external_run_id and the
\* file's base name on the run.
C8_SuccessfulIngest ==
    (last_file # None /\ Val(last_file).err = "") =>
        LET f == Val(last_file)
            id == Val(f.run_id)
            e == FirstMatch(f.pre.run_registry, f.name)
        IN /\ f.lines >= 1
           /\ Len(runs) = Len(f.pre.runs) + 1
           /\ id = Len(runs)
           /\ SubSeq(runs, 1, Len(f.pre.runs)) = f.pre.runs
           /\ Len(readings) = Len(f.pre.readings) + f.lines
           /\ SubSeq(readings, 1, Len(f.pre.readings)) = f.pre.readings
           /\ \A k \in (Len(f.pre.readings) + 1)..Len(readings) : readings[k].run_id = id
           /\ Len(run_registry) = Len(f.pre.run_registry)
           /\ \A i \in 1..Len(run_registry) :
                 run_registry[i] =
                    IF i = e THEN [f.pre.run_registry[i] EXCEPT !.run_id = Some(id)]
                    ELSE f.pre.run_registry[i]
           /\ runs[id].external_run_id = run_registry[e].external_run_id
           /\ runs[id].file_name = f.name

\* A file with two readings was ingested while another entry stayed unlinked.
C8_Witness ==
    /\ last_file # None
    /\ Val(last_file).err = ""
    /\ Val(last_file).lines = 2
    /\ \E i \in 1..Len(run_registry) : run_registry[i].run_id = None

---------------------------------------------------------------------------
\* Properties of the registry import.

SheetOf(imp) == Val(imp).sheet

NonBlankRows(sheet) == {k \in 1..Len(sheet) : Strip(sheet[k].runid) # <<>>}

SheetKeys(sheet) == {Strip(sheet[k].runid) : k \in NonBlankRows(sheet)}

NoDuplicateKeys(reg) ==
    \A i, j \in 1..Len(reg) :
        reg[i].external_run_id = reg[j].external_run_id => i = j

\* C7 as stated: the same sheet imported twice, into a table that was empty,
\* leaves the rows its first import left, as many rows as the sheet has
\* entries with a non-blank external_run_id, and no two rows with the same
\* external_run_id.
C7_AsStated ==
    (last_import # None /\ Val(last_import).twice /\ Val(last_import).fresh) =>
        /\ run_registry = Val(last_import).once
        /\ Len(run_registry) = Cardinality(NonBlankRows(SheetOf(last_import)))
        /\ NoDuplicateKeys(run_registry)

\* C7 amended: the same sheet imported twice leaves the rows its first
\* import left and no two rows with the same external_run_id; the table
\* holds one row for each distinct trimmed non-blank external_run_id of the
\* sheet (entries that repeat a key update one row), and the count returned
\* is the number of non-blank entries.
C7_UpsertIdempotent ==
    (last_import # None /\ Val(last_import).twice) =>
        /\ run_registry = Val(last_import).once
        /\ NoDuplicateKeys(run_registry)
        /\ \A key \in SheetKeys(SheetOf(last_import)) :
              Cardinality({i \in 1..Len(run_registry) :
                              run_registry[i].external_run_id = key}) = 1
        /\ Val(last_import).fresh =>
              Len(run_registry) = Cardinality(SheetKeys(SheetOf(last_import)))
        /\ NonBlankRows(SheetOf(last_import)) # {} =>
              Val(last_import).count =
                  Some(Cardinality(NonBlankRows(SheetOf(last_import))))

\* A sheet whose two entries carry the same key, one of them padded, was
\* imported twice into an empty table.
C7_Witness ==
    /\ last_import # None
    /\ Val(last_import).twice
    /\ Val(last_import).fresh
    /\ Cardinality(NonBlankRows(SheetOf(last_import))) = 2
    /\ Len(run_registry) = 1

---------------------------------------------------------------------------
\* Properties of the parsers.

Sorted(rs) ==
    \A i \in 1..(Len(rs) - 1) : rs[i].t_elapsed_s <= rs[i + 1].t_elapsed_s

Occurrences(rs, x) == Cardinality({i \in 1..Len(rs) : rs[i] = x})

Permutation(a, b) ==
    /\ Len(a) = Len(b)
    /\ \A x \in Range(a) \cup Range(b) : Occurrences(a, x) = Occurrences(b, x)

\* C9: the readings either parser returns are in non-decreasing order of
\* t_elapsed_s whatever the order of the rows or lines, and are the parsed
\* rows rearranged: none dropped, none repeated.
C9_SortedPermutation ==
    (probe # None /\ probe.stage \in {"csv", "device"} /\ probe.parsed.err = "") =>
        /\ Sorted(probe.parsed.readings)
        /\ Permutation(probe.parsed.readings, probe.rows)

\* A device log whose samples are not in chronological order: the parser
\* met a reading with a negative elapsed time and moved it to the front.
C9_Witness ==
    /\ probe # None
    /\ probe.stage = "device"
    /\ ~Sorted(probe.rows)
    /\ Len(probe.parsed.readings) = Len(probe.rows)

\* C10 as stated: the interval is null for 0 or 1 reading and strictly
\* positive for 2 or more.
C10_AsStated ==
    (probe # None /\ probe.stage = "interval") =>
        LET rs == probe.parsed.readings IN
        /\ Len(rs) < 2 => probe.interval = None
        /\ Len(rs) >= 2 => (probe.interval # None /\ Val(probe.interval).num > 0)

\* C10 amended: the interval is null for 0 or 1 reading; for 2 or more it is
\* the average of all n - 1 consecutive deltas, (last - first) / (n - 1),
\* which is never negative and is zero exactly when all the readings have
\* the same t_elapsed_s.
C10_IntervalNonNegative ==
    (probe # None /\ probe.stage = "interval") =>
        LET rs == probe.parsed.readings
            n == Len(rs)
        IN /\ n < 2 => probe.interval = None
           /\ n >= 2 =>
                 /\ probe.interval =
                       Some([num |-> rs[n].t_elapsed_s - rs[1].t_elapsed_s, den |-> n - 1])
                 /\ Val(probe.interval).num >= 0
                 /\ Val(probe.interval).num = 0
                       <=> \A i \in 1..n : rs[i].t_elapsed_s = rs[1].t_elapsed_s

\* Two readings at the same elapsed time: the interval is 0 / 1.
C10_Witness ==
    /\ probe # None
    /\ probe.stage = "interval"
    /\ Len(probe.parsed.readings) = 2
    /\ probe.interval = Some([num |-> 0, den |-> 1])

---------------------------------------------------------------------------
\* Label import (services/label_import.py).  A label file is missing or a
\* CSV: the header names as written, then the rows.  A row holds, for each
\* column of the vocabulary, the cell under the column of that name.

MaxLabelRows == 2
MaxLabels == 2

_to_int(value) ==
    IF value = None \/ Val(value).kind = "blank" THEN [err |-> "", val |-> None]
    ELSE IF Val(value).kind = "num" THEN [err |-> "", val |-> Some(Val(value).v)]
    ELSE [err |-> "LabelImportError: Invalid run_id value", val |-> None]

_required_str(value) ==
    IF value = None THEN "LabelImportError: Missing event_type value"
    ELSE IF Val(value).kind = "blank" THEN "LabelImportError: Empty event_type value"
    ELSE ""

\* _to_float of label_import.py for the required event_time_s.
LabelToFloat(value) ==
    IF value = None THEN "LabelImportError: Missing event_time_s value"
    ELSE IF Val(value).kind = "blank" THEN "LabelImportError: Empty event_time_s value"
    ELSE IF Val(value).kind = "bad" THEN "LabelImportError: Invalid event_time_s value"
    ELSE ""

RunIdMissing == "LabelImportError: run_id missing"

\* row_run_id if it is not None, else the run_id argument.
EffectiveRunId(header, row, run_id) ==
    LET row_run_id == IF Exact("run_id") \in StrippedNames(header)
                      THEN _to_int(RowGet(header, row, "run_id")).val ELSE None
    IN IF row_run_id # None THEN row_run_id ELSE run_id

\* A row that resolves no run_id is passed over and the loop goes on.
LabelRowSkipsMissing(header, row, run_id) ==
    LET effective == EffectiveRunId(header, row, run_id) IN
    IF effective = None THEN [err |-> "", labels |-> <<>>]
    ELSE [err |-> "", labels |-> <<[run_id |-> Val(effective),
                                    event_time_s |-> row.event_time_s.v]>>]

\* The body of "for row in reader": the first check that fails raises.
LabelRow(header, row, run_id) ==
    LET int_err == IF Exact("run_id") \in StrippedNames(header)
                   THEN _to_int(RowGet(header, row, "run_id")).err ELSE ""
        effective == EffectiveRunId(header, row, run_id)
        type_err == _required_str(RowGet(header, row, "event_type"))
        time_err == LabelToFloat(RowGet(header, row, "event_time_s"))
    IN IF int_err # "" THEN [err |-> int_err, labels |-> <<>>]
       ELSE IF effective = None THEN [err |-> RunIdMissing, labels |-> <<>>]
       ELSE IF type_err # "" THEN [err |-> type_err, labels |-> <<>>]
       ELSE IF time_err # "" THEN [err |-> time_err, labels |-> <<>>]
       ELSE [err |-> "", labels |-> <<[run_id |-> Val(effective),
                                       event_time_s |-> row.event_time_s.v]>>]

RECURSIVE LabelRows(_, _, _)
LabelRows(header, rows, run_id) ==
    IF rows = <<>> THEN [err |-> "", labels |-> <<>>]
    ELSE LET first == LabelRow(header, Head(rows), run_id) IN
         IF first.err # "" THEN first
         ELSE LET rest == LabelRows(header, Tail(rows), run_id) IN
              IF rest.err # "" THEN rest
              ELSE [err |-> "", labels |-> first.labels \o rest.labels]

_parse_labels_csv(file, run_id) ==
    IF ~file.exists
    THEN [err |-> "LabelImportError: Label path does not exist", labels |-> <<>>]
    ELSE IF file.header = None
    THEN [err |-> "LabelImportError: Missing header row", labels |-> <<>>]
    ELSE IF Exact("event_type") \notin StrippedNames(Val(file.header))
            \/ Exact("event_time_s") \notin StrippedNames(Val(file.header))
    THEN [err |-> "LabelImportError: CSV requires event_type and event_time_s columns",
          labels |-> <<>>]
    ELSE LabelRows(Val(file.header), file.body, run_id)

\* labels.run_id references runs(run_id), with foreign keys enforced.
LabelsForeignKey(rns, ls) == \A i \in 1..Len(ls) : ls[i].run_id \in 1..Len(rns)

\* INSERT INTO labels (...) VALUES (...), one row per label, in order.
insert_labels(tbl, ls) == tbl \o ls

\* import_labels_csv: parse every row, refuse an empty result, then insert
\* and commit in one transaction.
import_labels_csv(tbl, rns, file, run_id) ==
    LET parsed == _parse_labels_csv(file, run_id) IN
    IF parsed.err # "" THEN [err |-> parsed.err, labels |-> tbl, count |-> None]
    ELSE IF parsed.labels = <<>>
    THEN [err |-> "LabelImportError: No labels parsed", labels |-> tbl, count |-> None]
    ELSE IF ~LabelsForeignKey(rns, parsed.labels)
    THEN [err |-> "IntegrityError: FOREIGN KEY constraint failed",
          labels |-> Rollback(tbl, insert_labels(tbl, parsed.labels)), count |-> None]
    ELSE [err |-> "", labels |-> insert_labels(tbl, parsed.labels),
          count |-> Some(Len(parsed.labels))]

\* The label files of the model.
TextCell == [kind |-> "text", v |-> 0]
LabelRowSet ==
    [run_id : {BlankCell, NumCell(1), NumCell(2), BadCell},
     event_type : {TextCell},
     event_time_s : {NumCell(0), BlankCell}]
    \cup [run_id : {BlankCell, NumCell(1)},
          event_type : {BlankCell},
          event_time_s : {NumCell(0)}]
LabelHeaders ==
    {None,
     Some({Exact("event_type")}),
     Some({Exact("event_type"), Exact("event_time_s")}),
     Some({Exact("event_type"), Exact("event_time_s"), Exact("run_id")}),
     Some({Exact("event_type"), Exact("event_time_s"), Padded("run_id")})}
LabelFiles ==
    {MissingFile} \cup
    {CsvFile(h, rows) : h \in LabelHeaders, rows \in SeqsUpTo(LabelRowSet, MaxLabelRows)}

\* A database in which one log file has been ingested: run 1 exists.
DbWithRun ==
    IngestFile([run_registry |->
                   ImportOutcome(<<>>, <<[runid |-> <<"T1">>, log_file |-> NameB]>>).run_registry,
                runs |-> <<>>, readings |-> <<>>],
               NameB, TextFile(<<SampleLine(0)>>), "none").db

InitLabels ==
    /\ \E db \in {[run_registry |-> <<>>, runs |-> <<>>, readings |-> <<>>], DbWithRun} :
          /\ run_registry = db.run_registry
          /\ runs = db.runs
          /\ readings = db.readings
    /\ pc = "idle"
    /\ n_paths = 0
    /\ log_paths = <<>>
    /\ run_ids = <<>>
    /\ result = None
    /\ error = ""
    /\ processed = 0
    /\ call_start = None
    /\ last_file = None
    /\ last_import = None
    /\ probe = None
    /\ labels = <<>>
    /\ schema = <<>>
    /\ schema_migrations = {}
    /\ last_call = None

\* import_labels_csv(db_path, label_path, run_id=run_id): one call.
ImportLabelsCsv(file, run_id) ==
    /\ last_call = None
    /\ Len(labels) < MaxLabels
    /\ LET out == import_labels_csv(labels, runs, file, run_id) IN
       /\ labels' = out.labels
       /\ last_call' = Some([op |-> "import_labels_csv", file |-> file, run_id |-> run_id,
                             err |-> out.err, count |-> out.count, pre |-> labels])
    /\ UNCHANGED <<DbVars, CallVars, probe, schema, schema_migrations>>

\* The caller has the count or the exception; the next call may begin.
LastCallOver ==
    /\ last_call # None
    /\ last_call' = None
    /\ UNCHANGED <<DbVars, CallVars, probe, labels, schema, schema_migrations>>

NextLabels ==
    \/ \E file \in LabelFiles, run_id \in {None, Some(1)} : ImportLabelsCsv(file, run_id)
    \/ LastCallOver

SpecLabels == InitLabels /\ [][NextLabels]_vars

\* The rows of the last label file that resolve no run_id: no row-level
\* run_id that is present and non-blank, and no default.
RowsWithoutRunId ==
    LET c == Val(last_call) IN
    IF ~c.file.exists \/ c.file.header = None \/ c.run_id # None THEN {}
    ELSE {k \in 1..Len(c.file.body) :
             \/ Exact("run_id") \notin Val(c.file.header)
             \/ c.file.body[k].run_id.kind = "blank"}

\* Every row before row k passes every check of the loop body.
RowsBeforeAreValid(k) ==
    LET c == Val(last_call) IN
    \A j \in 1..(k - 1) : LabelRow(Val(c.file.header), c.file.body[j], c.run_id).err = ""

HeaderHasRequired ==
    LET h == StrippedNames(Val(Val(last_call).file.header)) IN
    Exact("event_type") \in h /\ Exact("event_time_s") \in h

\* C11 as stated: when any row resolves no run_id, the import fails with
\* the "run_id missing" LabelImportError and the labels table is unchanged.
C11_AsStated ==
    (last_call # None /\ Val(last_call).op = "import_labels_csv" /\ RowsWithoutRunId # {}) =>
        /\ Val(last_call).err = RunIdMissing
        /\ labels = Val(last_call).pre

\* C11 amended: when any row resolves no run_id, the import fails with a
\* LabelImportError and inserts no label at all; the error is "run_id
\* missing" exactly when the header has event_type and event_time_s and
\* every row before the first such row is valid, and otherwise it is the
\* error of the header or of the earlier invalid row.
C11_RunIdAllOrNothing ==
    (last_call # None /\ Val(last_call).op = "import_labels_csv" /\ RowsWithoutRunId # {}) =>
        LET c == Val(last_call)
            k == CHOOSE i \in RowsWithoutRunId : \A j \in RowsWithoutRunId : i <= j
        IN /\ c.err \in {RunIdMissing,
                         "LabelImportError: CSV requires event_type and event_time_s columns",
                         "LabelImportError: Invalid run_id value",
                         "LabelImportError: Empty event_type value",
                         "LabelImportError: Empty event_time_s value"}
           /\ c.count = None
           /\ labels = c.pre
           /\ c.err = RunIdMissing <=> (HeaderHasRequired /\ RowsBeforeAreValid(k))

\* A file whose first row is complete and whose second row has a blank
\* run_id was refused, with labels of an earlier import in the table.
C11_Witness ==
    /\ last_call # None
    /\ Val(last_call).op = "import_labels_csv"
    /\ Val(last_call).err = RunIdMissing
    /\ RowsWithoutRunId = {2}
    /\ Val(last_call).pre # <<>>

---------------------------------------------------------------------------
\* The header row of a registry sheet (services/registry_import.py).  A
\* header name is text: words and blank tokens.

\* str.lower() on the words of the header vocabulary.
Lower(word) ==
    CASE word = "RunID" -> "runid"
      [] word = "Test" -> "test"
      [] word = "Status" -> "status"
      [] word = "Log" -> "log"
      [] word = "File" -> "file"
      [] OTHER -> word

\* re.sub(r"\s+", " ", ...): a run of blanks becomes one blank.
RECURSIVE CollapseBlanks(_)
CollapseBlanks(s) ==
    IF Len(s) < 2 THEN s
    ELSE IF s[1] = " " /\ s[2] = " " THEN CollapseBlanks(Tail(s))
    ELSE <<s[1]>> \o CollapseBlanks(Tail(s))

_normalize_header(value) ==
    CollapseBlanks([i \in 1..Len(Strip(value)) |-> Lower(Strip(value)[i])])

RequiredHeaders == <<<<"runid">>, <<"test", " ", "status">>, <<"log", " ", "file">>>>

\* Only the first missing header is reported.
ValidateFirstMissingOnly(normalized_headers) ==
    LET missing == SelectSeq(RequiredHeaders, LAMBDA h : h \notin normalized_headers)
    IN IF missing = <<>> THEN <<>> ELSE <<Head(missing)>>

\* The list "missing" of _validate_required_headers; the function raises
\* when the list is not empty.
_validate_required_headers(normalized_headers) ==
    SelectSeq(RequiredHeaders, LAMBDA h : h \notin normalized_headers)

MissingHeadersErr == "RegistryImportError: Missing required headers"

\* import_run_registry on a .csv file: the header row is checked, then the
\* rows are mapped and upserted.
import_run_registry(reg, file) ==
    IF ~file.exists
    THEN [run_registry |-> reg, count |-> None, missing |-> <<>>,
          error |-> "RegistryImportError: Registry file does not exist"]
    ELSE IF file.header = None
    THEN [run_registry |-> reg, count |-> None, missing |-> <<>>,
          error |-> "RegistryImportError: Missing header row"]
    ELSE LET normalized == {_normalize_header(h) : h \in Val(file.header)}
             missing == _validate_required_headers(normalized)
         IN IF missing # <<>>
            THEN [run_registry |-> reg, count |-> None, missing |-> missing,
                  error |-> MissingHeadersErr]
            ELSE [missing |-> <<>>] @@ ImportOutcome(reg, file.body)

\* The spellings of each required header in the sheets of the model.
HeaderSpellings ==
    <<{<<"runid">>, <<"RunID">>},
      {<<"test", " ", "status">>, <<"Test", " ", " ", "Status">>},
      {<<"log", " ", "file">>, <<" ", "Log", " ", "File", " ">>}>>

RegistryHeaders ==
    {None} \cup
    {Some(a \cup b \cup c \cup {<<"timestamp">>}) :
        a \in {{}} \cup {{n} : n \in HeaderSpellings[1]},
        b \in {{}} \cup {{n} : n \in HeaderSpellings[2]},
        c \in {{}} \cup {{n} : n \in HeaderSpellings[3]}}

RegistryFiles ==
    {MissingFile} \cup {CsvFile(h, rows) : h \in RegistryHeaders, rows \in IngestSheets}

\* import_run_registry(db_path, file_path): one call.
ImportRegistryFile(file) ==
    /\ pc = "idle"
    /\ last_call = None
    /\ \E out \in {import_run_registry(run_registry, file)} :
       /\ run_registry' = out.run_registry
       /\ last_call' = Some([op |-> "import_run_registry", file |-> file,
                             err |-> out.error, missing |-> out.missing,
                             count |-> out.count, pre |-> run_registry])
    /\ UNCHANGED <<runs, readings, last_import, CallVars, probe, labels, schema,
                   schema_migrations>>

NextHeaders ==
    \/ \E file \in RegistryFiles : ImportRegistryFile(file)
    \/ LastCallOver

SpecHeaders == Init /\ [][NextHeaders]_vars

\* The required headers that no header of the last sheet normalizes to.
LackingHeaders ==
    LET names == {_normalize_header(h) : h \in Val(Val(last_call).file.header)}
    IN {h \in Range(RequiredHeaders) : h \notin names}

HeaderRowChecked ==
    /\ last_call # None
    /\ Val(last_call).op = "import_run_registry"
    /\ Val(last_call).file.exists
    /\ Val(last_call).file.header # None

\* C12: when the normalized headers of a registry sheet lack any of runid,
\* test status, log file, the import fails with the missing-headers
\* RegistryImportError, the list it carries holds every missing required
\* header once and no header that is present, and the registry table is
\* unchanged; when none is lacking, that error is not raised.
C12_MissingHeadersListed ==
    HeaderRowChecked =>
        LET c == Val(last_call) IN
        /\ LackingHeaders # {} =>
              /\ c.err = MissingHeadersErr
              /\ Range(c.missing) = LackingHeaders
              /\ Len(c.missing) = Cardinality(LackingHeaders)
              /\ c.count = None
              /\ run_registry = c.pre
        /\ LackingHeaders = {} => (c.err # MissingHeadersErr /\ c.missing = <<>>)

\* A sheet with rows that spells RunID in capitals and lacks two required
\* headers was refused while the registry already held rows.
C12_Witness ==
    /\ HeaderRowChecked
    /\ Val(last_call).err = MissingHeadersErr
    /\ Len(Val(last_call).missing) = 2
    /\ <<"RunID">> \in Val(Val(last_call).file.header)
    /\ Val(last_call).file.body # <<>>
    /\ Val(last_call).pre # <<>>

---------------------------------------------------------------------------
\* Properties of the structured-CSV header check.

\* The required names that are not among the header names as written.
NotExactlyPresent(header) == {c \in Required : Exact(c) \notin header}

\* C13 as stated: a header row in which t_elapsed_s, temp_c or rh_pct is not
\* present as an exact match (case and whitespace) fails with the
\* missing-columns IngestError naming the sorted missing columns; otherwise
\* no such error is raised and every reading holds the row's values of
\* those columns.
C13_ExactHeaderMatch ==
    (probe # None /\ probe.stage = "csv" /\ probe.file.fmt = "csv"
        /\ probe.file.header # None) =>
        LET header == Val(probe.file.header) IN
        /\ NotExactlyPresent(header) # {} =>
              /\ probe.parsed.err = "IngestError: Missing required columns"
              /\ probe.parsed.missing = SortedNames(NotExactlyPresent(header))
        /\ NotExactlyPresent(header) = {} =>
              /\ probe.parsed.err # "IngestError: Missing required columns"
              /\ probe.parsed.err = "" =>
                    \A i \in 1..Len(probe.rows) :
                        /\ probe.rows[i].t_elapsed_s = probe.file.body[i].t_elapsed_s.v
                        /\ probe.rows[i].rh_pct = _to_float(Some(probe.file.body[i].rh_pct),
                                                           "rh_pct", TRUE).val

---------------------------------------------------------------------------
\* Properties of the free-text device log parser.

\* The instant, in quarter-hours of UTC, of an aware date-time.
Instant(ts) == Val(ts).wall - Val(ts).offset

\* C14 as stated: the first line (in file order) that matches the sample
\* pattern yields a reading with t_elapsed_s exactly 0, and every other
\* reading's t_elapsed_s is its instant minus the instant of that first
\* matched line.
C14_ElapsedFromFirstMatch ==
    (probe # None /\ probe.stage = "device" /\ probe.parsed.err = ""
        /\ probe.rows # <<>>) =>
        /\ probe.rows[1].t_elapsed_s = 0
        /\ \A i \in 1..Len(probe.rows) :
              probe.rows[i].t_elapsed_s
                 = Instant(probe.rows[i].timestamp) - Instant(probe.rows[1].timestamp)

---------------------------------------------------------------------------
\* Properties of the list ingest_logs returns.

\* C15: when ingest_logs returns, the list has one id per input path, the
\* i-th id is the run created in this call for the i-th path (the run's
\* file_name is that path's base name), and the ids are those of the runs
\* the call added, in the order of the paths.
C15_RunIdsInInputOrder ==
    pc = "returned" =>
        LET ids == Val(result)
            before == Len(Val(call_start).runs)
        IN /\ result # None
           /\ Len(ids) = n_paths
           /\ Len(ids) = Len(log_paths)
           /\ Len(runs) = before + Len(ids)
           /\ \A i \in 1..Len(ids) :
                 /\ ids[i] = before + i
                 /\ runs[ids[i]].run_id = ids[i]
                 /\ runs[ids[i]].file_name = log_paths[i]

\* A call with two paths, the .log file before the .csv file, returned the
\* ids of the two runs it created.
C15_Witness ==
    /\ pc = "returned"
    /\ result # None
    /\ Len(Val(result)) = 2
    /\ log_paths = <<NameB, NameA>>

---------------------------------------------------------------------------
\* Schema migrations (storage/db.py).  A script is a version and its
\* statements; schema holds <<version, k>> for each statement k that took
\* effect, in the order of execution.

MaxScripts == 2
MaxStmts == 2

Versions == 1..MaxScripts

\* Whether the script of version v wraps its statements in BEGIN ... COMMIT.
\* executescript() adds no transaction of its own: without the wrapper each
\* statement is committed as it runs.
Wrapped(v) == v % 2 = 0

\* sorted(p for p in migrations_path.iterdir() if ... suffix == ".sql")
SortedVersions(dir) == SelectSeq([v \in 1..MaxScripts |-> v], LAMBDA v : v \in dir)

\* What a call may meet: nothing, or a DatabaseError in the script of one
\* version, at statement at (at = MaxStmts + 1: at the INSERT into
\* schema_migrations or at the commit).
MigrationFaults ==
    {[version |-> 0, at |-> 0]}
        \cup [version : Versions, at : 1..(MaxStmts + 1)]

Effects(v, n) == [k \in 1..n |-> <<v, k>>]

\* The try block for one migration file: executescript(sql), the INSERT
\* into schema_migrations, commit; a DatabaseError rolls back what is still
\* in an open transaction and raises MigrationError.
RunScript(db, v, fault) ==
    IF fault.version = v /\ fault.at <= MaxStmts
    THEN [err |-> "MigrationError: Failed migration",
          db |-> IF Wrapped(v) THEN db
                 ELSE [db EXCEPT !.schema = @ \o Effects(v, fault.at - 1)]]
    ELSE IF fault.version = v
    THEN [err |-> "MigrationError: Failed migration",
          db |-> [db EXCEPT !.schema = @ \o Effects(v, MaxStmts)]]
    ELSE [err |-> "",
          db |-> [schema |-> db.schema \o Effects(v, MaxStmts),
                  schema_migrations |-> db.schema_migrations \cup {v}]]

\* for migration in migration_files: versions in applied are skipped, the
\* first failure ends the call.
RECURSIVE ApplyFiles(_, _, _, _)
ApplyFiles(files, applied, db, fault) ==
    IF files = <<>> THEN [err |-> "", db |-> db]
    ELSE IF Head(files) \in applied THEN ApplyFiles(Tail(files), applied, db, fault)
    ELSE LET out == RunScript(db, Head(files), fault) IN
         IF out.err # "" THEN out
         ELSE ApplyFiles(Tail(files), applied, out.db, fault)

\* apply_migrations(conn, migrations_dir); dir is None when the directory
\* does not exist, else the versions of its .sql files.
apply_migrations(db, dir, fault) ==
    IF dir = None THEN [err |-> "MigrationError: Missing migrations dir", db |-> db]
    ELSE ApplyFiles(SortedVersions(Val(dir)), db.schema_migrations, db, fault)

SchemaDb == [schema |-> schema, schema_migrations |-> schema_migrations]

\* init_db / apply_migrations: one call.
ApplyMigrations(dir, fault) ==
    /\ last_call = None
    /\ Len(schema) <= MaxScripts * MaxStmts
    /\ LET out == apply_migrations(SchemaDb, dir, fault) IN
       /\ schema' = out.db.schema
       /\ schema_migrations' = out.db.schema_migrations
       /\ last_call' = Some([op |-> "apply_migrations", dir |-> dir, fault |-> fault,
                             err |-> out.err, pre |-> SchemaDb])
    /\ UNCHANGED <<DbVars, CallVars, probe, labels>>

NextMigrations ==
    \/ \E dir \in {None} \cup {Some(d) : d \in SUBSET Versions},
          fault \in MigrationFaults : ApplyMigrations(dir, fault)
    \/ LastCallOver

SpecMigrations == Init /\ [][NextMigrations]_vars

\* How often statement k of version v took effect.
TimesApplied(v, k) == Cardinality({i \in 1..Len(schema) : schema[i] = <<v, k>>})

\* C16 as stated: whatever the number of apply_migrations calls, a script
\* is either recorded as applied with each of its statements in effect
\* exactly once, or not recorded with none of its statements in effect, and
\* the scripts in effect were applied in sorted order.
C16_OncePerScriptAtomic ==
    /\ \A v \in Versions :
          \/ v \in schema_migrations /\ \A k \in 1..MaxStmts : TimesApplied(v, k) = 1
          \/ v \notin schema_migrations /\ \A k \in 1..MaxStmts : TimesApplied(v, k) = 0
    /\ (last_call # None /\ Val(last_call).op = "apply_migrations") =>
          LET new == SubSeq(schema, Len(Val(last_call).pre.schema) + 1, Len(schema))
          IN \A i, j \in 1..Len(new) : i < j => new[i][1] <= new[j][1]

---------------------------------------------------------------------------
\* One timestamp text through both paths: a sheet row that carries it is
\* imported, a log file whose row carries it is ingested.

\* The timestamp cell of a log CSV that holds the text: what
\* fromisoformat makes of it (the wall-clock tick is of no account here).
StampCell(text) ==
    IF text.form = "empty" THEN BlankStamp
    ELSE IF ~FromIsoFormat(text) THEN BadStamp
    ELSE IF text.form = "iso_z" THEN ZuluStamp(0)
    ELSE IsoStamp(0, text.offset)

StampedSheet(text) ==
    CsvFile(Some(Range(RequiredHeaders) \cup {<<"timestamp">>}),
            <<[runid |-> <<"T2">>, log_file |-> NameB, timestamp |-> text]>>)

StampedLog(text) ==
    CsvFile(Header(Required \cup {"timestamp"}), <<CsvRow(NumCell(0), StampCell(text))>>)

InitStamps ==
    /\ \E sheet \in {<<[runid |-> <<"T1">>, log_file |-> PaddedA]>>} :
          run_registry = ImportOutcome(<<>>, sheet).run_registry
    /\ runs = <<>>
    /\ readings = <<>>
    /\ pc = "idle"
    /\ n_paths = 0
    /\ log_paths = <<>>
    /\ run_ids = <<>>
    /\ result = None
    /\ error = ""
    /\ processed = 0
    /\ call_start = None
    /\ last_file = None
    /\ last_import = None
    /\ probe \in {[stage |-> "stamp", text |-> t] : t \in StampTexts}
    /\ labels = <<>>
    /\ schema = <<>>
    /\ schema_migrations = {}
    /\ last_call = None

NextStamps ==
    \/ \E file \in {StampedSheet(probe.text)} : ImportRegistryFile(file)
    \/ LastCallOver
    \/ IngestLogsCall(1)
    \/ \E file \in {StampedLog(probe.text)} : IngestLogsFile(NameA, file, "none")
    \/ IngestLogsReturn
    \/ CallOver

SpecStamps == InitStamps /\ [][NextStamps]_vars

\* The sheet row of the stamped sheet was imported: its table row.
SheetRowImported ==
    /\ last_call # None
    /\ Val(last_call).op = "import_run_registry"
    /\ Val(last_call).err = ""

StampedRow == run_registry[KeyIndex(run_registry, <<"T2">>)]

\* C17 as stated: the serial value 45678.5 normalizes to
\* 2025-01-09T12:00:00+01:00.
C17_AsStated ==
    (SheetRowImported /\ probe.text = NumberText(45678, 5, 10)) =>
        StampedRow.planned_or_recorded_ts
            = Some([form |-> "isoformat", y |-> 2025, m |-> 1, d |-> 9,
                    h |-> 12, mi |-> 0, s |-> 0, offset |-> 4])

\* C17 amended: the serial value 45678.5 with a default timezone at UTC+1
\* normalizes to 2025-01-21T12:00:00+01:00; every serial value above 1000
\* normalizes to the date that many whole days after 1899-12-30, at the
\* time of day its fraction of 86400 s gives, with the default zone's offset
\* attached.
C17_SerialFromEpoch ==
    (SheetRowImported /\ probe.text.form = "number"
        /\ probe.text.int * probe.text.scale + probe.text.frac > 1000 * probe.text.scale) =>
        LET ts == Val(StampedRow.planned_or_recorded_ts) IN
        /\ StampedRow.planned_or_recorded_ts # None
        /\ ts.form = "isoformat"
        /\ DaysFromCivil(ts.y, ts.m, ts.d) - DaysFromCivil(1899, 12, 30) = probe.text.int
        /\ (ts.h * 3600 + ts.mi * 60 + ts.s) * probe.text.scale = probe.text.frac * 86400
        /\ ts.offset = (IF ts.y >= 1980 /\ ts.m \in 4..9 THEN SummerOffset ELSE WinterOffset)
        /\ probe.text = NumberText(45678, 5, 10) =>
              ts = [form |-> "isoformat", y |-> 2025, m |-> 1, d |-> 21,
                    h |-> 12, mi |-> 0, s |-> 0, offset |-> 4]

\* The sheet row with 45678.5 was imported.
C17_Witness ==
    /\ SheetRowImported
    /\ probe.text = NumberText(45678, 5, 10)
    /\ Val(last_call).count = Some(1)
    /\ StampedRow.planned_or_recorded_ts # None

\* The text matches no serial, explicit-format or ISO parse.
Unparsable(text) ==
    \/ text.form = "text"
    \/ text.form = "number" /\ text.int * text.scale + text.frac <= 1000 * text.scale
    \/ /\ text.form \in {"ymd_hms", "ymd_hm", "ymd", "iso_t", "iso_z"}
       /\ \/ text.m \notin 1..12
          \/ text.d \notin 1..DaysInMonth(text.y, text.m)
          \/ text.h \notin 0..23

\* The text is no ISO date or date-time.
NotIso(text) ==
    \/ text.form \in {"text", "number"}
    \/ /\ text.form \in {"ymd_hms", "ymd_hm", "ymd", "iso_t", "iso_z"}
       /\ \/ text.m \notin 1..12
          \/ text.d \notin 1..DaysInMonth(text.y, text.m)
          \/ text.h \notin 0..23

\* C20: in the registry path a non-empty timestamp that matches no serial,
\* explicit-format or ISO parse is stored unchanged and its row is imported,
\* and an empty one is stored as null; in the log-ingest path a non-empty
\* timestamp that is no ISO date-time raises the invalid-timestamp
\* IngestError and the ingest creates no run and changes no table, and an
\* empty one, in the first ingest of the file, gives a reading with a null
\* timestamp.
C20_AsymmetricPolicy ==
    /\ (last_call # None /\ Val(last_call).op = "import_run_registry") =>
          /\ Unparsable(probe.text) =>
                /\ Val(last_call).err = ""
                /\ Val(last_call).count = Some(1)
                /\ StampedRow.external_run_id = <<"T2">>
                /\ StampedRow.planned_or_recorded_ts = Some(probe.text)
          /\ probe.text.form = "empty" =>
                /\ Val(last_call).err = ""
                /\ StampedRow.planned_or_recorded_ts = None
    /\ last_file # None =>
          /\ NotIso(probe.text) =>
                /\ pc = "raised"
                /\ error = "IngestError: Invalid timestamp"
                /\ runs = <<>>
                /\ Db = Val(last_file).pre
          /\ (probe.text.form = "empty" /\ Val(last_file).pre.runs = <<>>) =>
                /\ Val(last_file).err = ""
                /\ Len(runs) = 1
                /\ readings[Len(readings)].timestamp = None
                /\ runs[1].start_ts = None

\* The same text, an impossible date, was stored unchanged by the import of
\* its sheet row and then refused by the ingest of its log file.
C20_Witness ==
    /\ last_call # None
    /\ Val(last_call).op = "import_run_registry"
    /\ probe.text.form = "ymd"
    /\ Unparsable(probe.text)
    /\ StampedRow.planned_or_recorded_ts = Some(probe.text)
    /\ pc = "raised"
    /\ error = "IngestError: Invalid timestamp"

---------------------------------------------------------------------------
\* The error kinds of a call of ingest_logs.

\* The messages of the IngestErrors that ingest.py raises.
IngestErrors ==
    {"IngestError: Log path does not exist",
     "IngestError: Missing header row",
     "IngestError: Missing required columns",
     "IngestError: Unsupported log format",
     "IngestError: Invalid timestamp",
     "IngestError: Missing t_elapsed_s value",
     "IngestError: Empty t_elapsed_s value",
     "IngestError: Invalid numeric value",
     "IngestError: No readings parsed",
     "IngestError: No run_registry entry matches log file",
     "IngestError: already linked"}

\* The failures of the database itself, which no file content causes.
DatabaseErrors ==
    {"DatabaseError: create_run", "DatabaseError: insert_readings",
     "DatabaseError: attach_run", "DatabaseError: commit"}

\* C18: whatever the content of the log files, a call of ingest_logs that
\* the database does not fail either succeeds or raises an IngestError,
\* never an error of another kind.
C18_OnlyIngestErrors ==
    (pc = "raised" /\ error \notin DatabaseErrors) => error \in IngestErrors

---------------------------------------------------------------------------
\* Elapsed time and the start of a run.

\* The readings stored for the run.
ReadingsOf(run_id) == SelectSeq(readings, LAMBDA r : r.run_id = run_id)

\* C19: for every run ingested from a log whose readings carry timestamps,
\* the run's start_ts is the timestamp of the reading with t_elapsed_s = 0,
\* and no stored reading has a negative t_elapsed_s.
C19_ElapsedSinceStart ==
    \A i \in 1..Len(runs) :
        LET rs == ReadingsOf(runs[i].run_id) IN
        (\A k \in 1..Len(rs) : rs[k].timestamp # None) =>
            /\ \A k \in 1..Len(rs) : rs[k].t_elapsed_s >= 0
            /\ \A k \in 1..Len(rs) :
                  rs[k].t_elapsed_s = 0 => runs[i].start_ts = rs[k].timestamp

---------------------------------------------------------------------------
\* The run_id of the labels an import stores.

\* The last call was an import of labels that succeeded.
LabelsImported ==
    /\ last_call # None
    /\ Val(last_call).op = "import_labels_csv"
    /\ Val(last_call).err = ""

\* C21: for every imported label row, the stored run_id is the row-level
\* run_id when the CSV has a run_id column and the row's value is
\* non-blank, and the caller-supplied default otherwise.
C21_RowRunIdTakesPrecedence ==
    LabelsImported =>
        LET c == Val(last_call) IN
        \A k \in 1..Len(c.file.body) :
            LET stored == labels[Len(c.pre) + k].run_id
                cell == c.file.body[k].run_id
            IN IF Exact("run_id") \in StrippedNames(Val(c.file.header))
                  /\ cell.kind # "blank"
               THEN stored = cell.v
               ELSE c.run_id # None /\ stored = Val(c.run_id)

---------------------------------------------------------------------------
\* Rows of a registry sheet without a key.

\* The i-th of the rows of the sheet that carry a key, in sheet order.
NthNonBlank(sheet, i) ==
    CHOOSE k \in NonBlankRows(sheet) :
        Cardinality({j \in NonBlankRows(sheet) : j <= k}) = i

\* The last row of the sheet that carries the key.
LastRowOf(sheet, key) ==
    CHOOSE k \in NonBlankRows(sheet) :
        /\ Strip(sheet[k].runid) = key
        /\ \A j \in NonBlankRows(sheet) : Strip(sheet[j].runid) = key => j <= k

\* C22: the rows of a sheet whose external_run_id is blank after trimming
\* are skipped: the records parsed are the rows with a key, in sheet order,
\* the k-th data row carrying source_row_number k + 1; the count returned is
\* the number of rows with a key, and the table holds no row with a blank
\* key and, for each key of the sheet, the row number of its last row.
C22_BlankKeysSkipped ==
    last_import # None =>
        LET sheet == SheetOf(last_import)
            kept == NonBlankRows(sheet)
            entries == _parse_registry_csv(sheet)
        IN /\ Len(entries) = Cardinality(kept)
           /\ \A i \in 1..Len(entries) :
                 /\ entries[i].source_row_number = NthNonBlank(sheet, i) + 1
                 /\ entries[i].external_run_id = Strip(sheet[NthNonBlank(sheet, i)].runid)
           /\ kept # {} => Val(last_import).count = Some(Cardinality(kept))
           /\ \A r \in 1..Len(run_registry) : run_registry[r].external_run_id # <<>>
           /\ \A key \in SheetKeys(sheet) :
                 run_registry[KeyIndex(run_registry, key)].source_row_number
                     = LastRowOf(sheet, key) + 1

\* A sheet whose first row has a blank key and whose second row has a key
\* was imported: one row counted, stored with row number 3.
C22_Witness ==
    /\ last_import # None
    /\ Len(SheetOf(last_import)) = 2
    /\ NonBlankRows(SheetOf(last_import)) = {2}
    /\ Val(last_import).count = Some(1)
    /\ \E r \in 1..Len(run_registry) : run_registry[r].source_row_number = 3

---------------------------------------------------------------------------
\* The packaged spreadsheet (_parse_registry_xlsx).  A worksheet is the
\* sequence of its rows, a row the sequence of its cells in document order,
\* a cell its reference (characters: column letters, then the row digits;
\* None when the attribute r is absent) and its text.

Alphabet ==
    <<"A", "B", "C", "D", "E", "F", "G", "H", "I", "J", "K", "L", "M",
      "N", "O", "P", "Q", "R", "S", "T", "U", "V", "W", "X", "Y", "Z">>

LowerCaseLetters ==
    <<"a", "b", "c", "d", "e", "f", "g", "h", "i", "j", "k", "l", "m",
      "n", "o", "p", "q", "r", "s", "t", "u", "v", "w", "x", "y", "z">>

\* ch.upper()
Upper(ch) ==
    IF \E i \in 1..26 : LowerCaseLetters[i] = ch
    THEN Alphabet[CHOOSE i \in 1..26 : LowerCaseLetters[i] = ch]
    ELSE ch

\* ch.isalpha()
IsAlpha(ch) == \E i \in 1..26 : Alphabet[i] = Upper(ch)

\* ord(ch.upper()) - ord("A") + 1
LetterValue(ch) == CHOOSE i \in 1..26 : Alphabet[i] = Upper(ch)

\* _column_index: the letters of the reference read as a base-26 number
\* with the digits A = 1 .. Z = 26.
RECURSIVE _column_index(_)
_column_index(cell_ref) ==
    LET letters == SelectSeq(cell_ref, IsAlpha) IN
    IF letters = <<>> THEN 0
    ELSE _column_index(SubSeq(letters, 1, Len(letters) - 1)) * 26
            + LetterValue(letters[Len(letters)])

Cell(ref, text) == [ref |-> ref, text |-> text]

\* The cells of the row that carry a reference: "if not ref: continue".
Referenced(row) == SelectSeq(row, LAMBDA cell : cell.ref # None /\ Val(cell.ref) # <<>>)

\* row_cells: column number -> text; a column met again is overwritten.
RowCells(row) ==
    LET cells == Referenced(row)
        cols == {_column_index(Val(cells[i].ref)) : i \in 1..Len(cells)}
    IN [col \in cols |->
           cells[CHOOSE i \in 1..Len(cells) :
                    /\ _column_index(Val(cells[i].ref)) = col
                    /\ \A j \in (i + 1)..Len(cells) :
                          _column_index(Val(cells[j].ref)) # col].text]

Max(S) == IF S = {} THEN 0 ELSE CHOOSE m \in S : \A x \in S : x <= m

\* The texts of the row one after another, the columns without a cell
\* dropped.
RowValuesPacked(row) ==
    LET row_cells == The({RowCells(r) : r \in {row}})
        n == Cardinality(DOMAIN row_cells)
    IN [i \in 1..n |->
           row_cells[CHOOSE col \in DOMAIN row_cells :
                        Cardinality({c \in DOMAIN row_cells : c <= col}) = i]]

\* values = [row_cells.get(i, "") for i in range(1, max_col + 1)]
RowValues(row) ==
    LET row_cells == The({RowCells(r) : r \in {row}})
        max_col == Max(DOMAIN row_cells)
    IN [i \in 1..max_col |-> IF i \in DOMAIN row_cells THEN row_cells[i] ELSE <<>>]

\* header_to_pos = {h: i for i, h in enumerate(headers)}: the position (from
\* 0) of the last column that carries the header text h.
HeaderToPos(headers) ==
    [h \in Range(headers) |->
        Max({i \in 1..Len(headers) : headers[i] = h}) - 1]

\* row_dict: for each header, values[pos], or "" when the row ends before.
RowDict(headers, values) ==
    LET header_to_pos == HeaderToPos(headers) IN
    [h \in Range(headers) |->
        IF header_to_pos[h] < Len(values) THEN values[header_to_pos[h] + 1] ELSE <<>>]

\* normalized = {_normalize_header(h): h for h in headers if h}: the header
\* text kept for a normalized name is that of its last column.
NormalizedHeaders(headers) ==
    LET named == SelectSeq(headers, LAMBDA h : h # <<>>) IN
    [n \in {_normalize_header(named[i]) : i \in 1..Len(named)} |->
        named[Max({i \in 1..Len(named) : _normalize_header(named[i]) = n})]]

\* The row handed to _map_row: the texts under the headers it looks up.
SheetRow(normalized, row_dict) ==
    [runid |-> row_dict[normalized[<<"runid">>]],
     log_file |-> row_dict[normalized[<<"log", " ", "file">>]]]

\* _parse_registry_xlsx on the worksheet of the requested name, with the
\* lists it builds on the way: row_values, and the row_dict of each row
\* after the first.
_parse_registry_xlsx(ws) ==
    LET row_values == [r \in 1..Len(ws) |-> RowValues(ws[r])] IN
    IF row_values = <<>>
    THEN [err |-> "", missing |-> <<>>, row_values |-> row_values, row_dicts |-> <<>>,
          entries |-> <<>>]
    ELSE LET headers == row_values[1]
             normalized == NormalizedHeaders(headers)
             missing == _validate_required_headers(DOMAIN normalized)
             row_dicts == [k \in 1..(Len(ws) - 1) |-> RowDict(headers, row_values[k + 1])]
         IN IF missing # <<>>
            THEN [err |-> MissingHeadersErr, missing |-> missing,
                  row_values |-> row_values, row_dicts |-> <<>>, entries |-> <<>>]
            ELSE [err |-> "", missing |-> <<>>, row_values |-> row_values,
                  row_dicts |-> row_dicts,
                  entries |-> MapRows([k \in 1..Len(row_dicts) |->
                                          SheetRow(normalized, row_dicts[k])], 2)]

\* import_run_registry on a .xlsx file: parse, refuse an empty result,
\* upsert and commit.
ImportXlsxOutcome(reg, ws) ==
    The({IF parsed.err # ""
         THEN [run_registry |-> reg, count |-> None, error |-> parsed.err, parsed |-> parsed]
         ELSE IF parsed.entries = <<>>
         THEN [run_registry |-> reg, count |-> None,
               error |-> "RegistryImportError: No registry rows found", parsed |-> parsed]
         ELSE The({[run_registry |-> up.run_registry, count |-> Some(up.count),
                    error |-> "", parsed |-> parsed]
                   : up \in {upsert_entries(reg, parsed.entries)}})
         : parsed \in {_parse_registry_xlsx(ws)}})

\* The worksheets of the model.  A layout puts the three required headers
\* in three columns; a data row has a cell, or none, in each of them.
Digits == <<"1", "2", "3", "4">>

Ref(letters, r) == Some(letters \o <<Digits[r]>>)

Layouts ==
    {[runid |-> <<"A">>, status |-> <<"B">>, log_file |-> <<"C">>],
     [runid |-> <<"a">>, status |-> <<"Z">>, log_file |-> <<"A", "A">>],
     [runid |-> <<"C">>, status |-> <<"D">>, log_file |-> <<"A">>]}

\* The columns of the layout from left to right.
LayoutOrder(layout) ==
    IF layout.log_file = <<"A">> THEN <<"log_file", "runid", "status">>
    ELSE <<"runid", "status", "log_file">>

HeaderText(field) ==
    CASE field = "runid" -> <<"runid">>
      [] field = "status" -> <<"test", " ", "status">>
      [] field = "log_file" -> <<"log", " ", "file">>

DataText(field, r) ==
    CASE field = "runid" -> (IF r = 2 THEN <<"T1">> ELSE <<"T2">>)
      [] field = "status" -> <<"ok">>
      [] field = "log_file" -> NameB

\* Row r of a layout with a cell in each column of fields: the header row
\* when r = 1.
XlsxRow(layout, fields, r) ==
    LET order == SelectSeq(LayoutOrder(layout), LAMBDA f : f \in fields) IN
    [i \in 1..Len(order) |->
        Cell(Ref(layout[order[i]], r),
             IF r = 1 THEN HeaderText(order[i]) ELSE DataText(order[i], r))]

\* The data rows at row r: every choice of cells, and a row whose first
\* cell has no reference.
XlsxDataRows(layout, r) ==
    {XlsxRow(layout, fields, r) : fields \in SUBSET {"runid", "status", "log_file"}}
        \cup {<<Cell(None, <<"T1">>)>> \o XlsxRow(layout, {"log_file"}, r)}

RECURSIVE XlsxBodies(_, _, _)
XlsxBodies(layout, r, n) ==
    IF n = 0 THEN {<<>>}
    ELSE {<<>>} \cup {<<row>> \o rest : row \in XlsxDataRows(layout, r),
                                     rest \in XlsxBodies(layout, r + 1, n - 1) \ {<<>>}}
                \cup {<<row>> : row \in XlsxDataRows(layout, r)}

Worksheets ==
    {<<>>}
        \cup UNION {{<<XlsxRow(layout, {"runid", "status", "log_file"}, 1)>> \o body :
                        body \in XlsxBodies(layout, 2, MaxSheetRows)} : layout \in Layouts}
        \cup UNION {{<<XlsxRow(layout, {"runid", "status"}, 1)>> \o body :
                        body \in XlsxBodies(layout, 2, 1)} : layout \in Layouts}

\* import_run_registry(db_path, file_path) on a .xlsx file: one call.
ImportRegistryXlsx(ws) ==
    /\ pc = "idle"
    /\ last_call = None
    /\ \E out \in {ImportXlsxOutcome(run_registry, ws)} :
       /\ run_registry' = out.run_registry
       /\ last_call' = Some([op |-> "import_run_registry", suffix |-> ".xlsx", file |-> ws,
                             err |-> out.error, missing |-> out.parsed.missing,
                             count |-> out.count, pre |-> run_registry,
                             row_values |-> out.parsed.row_values,
                             row_dicts |-> out.parsed.row_dicts])
    /\ UNCHANGED <<runs, readings, last_import, CallVars, probe, labels, schema,
                   schema_migrations>>

NextXlsx ==
    \/ \E ws \in Worksheets : ImportRegistryXlsx(ws)
    \/ LastCallOver

SpecXlsx == Init /\ [][NextXlsx]_vars

\* The column letters of a reference, in capitals.
Letters(ref) ==
    LET letters == SelectSeq(ref, IsAlpha) IN [i \in 1..Len(letters) |-> Upper(letters[i])]

\* The number of the column of the letters, for the columns of the model.
ColumnNumber(letters) ==
    CASE letters = <<"A">> -> 1
      [] letters = <<"B">> -> 2
      [] letters = <<"C">> -> 3
      [] letters = <<"D">> -> 4
      [] letters = <<"Z">> -> 26
      [] letters = <<"A", "A">> -> 27

\* The text of the row's cell in the column of the letters, blank when the
\* row has no cell there.
TextInColumn(row, letters) ==
    LET cells == Referenced(row) IN
    IF \E i \in 1..Len(cells) : Letters(Val(cells[i].ref)) = letters
    THEN cells[CHOOSE i \in 1..Len(cells) : Letters(Val(cells[i].ref)) = letters].text
    ELSE <<>>

\* C23: in the packaged-spreadsheet path every row's values are placed by
\* the column letters of its cells (A = 1, Z = 26, AA = 27), the columns
\* without a cell holding a blank; and each data row gives, under every
\* header of the first row, the text of its cell in the header's column, or
\* a blank when it has no cell there, later cells keeping their place.
C23_CellsKeepTheirColumns ==
    (last_call # None /\ Val(last_call).op = "import_run_registry") =>
        LET c == Val(last_call)
            ws == c.file
        IN /\ \A r \in 1..Len(ws) :
                 LET cells == Referenced(ws[r])
                     used == {ColumnNumber(Letters(Val(cells[i].ref))) : i \in 1..Len(cells)}
                 IN /\ Len(c.row_values[r]) = Max(used)
                    /\ \A i \in 1..Len(cells) :
                          c.row_values[r][ColumnNumber(Letters(Val(cells[i].ref)))]
                              = cells[i].text
                    /\ \A col \in 1..Len(c.row_values[r]) :
                          col \notin used => c.row_values[r][col] = <<>>
           /\ c.missing = <<>> /\ ws # <<>> =>
                 /\ Len(c.row_dicts) = Len(ws) - 1
                 /\ \A k \in 1..Len(c.row_dicts) :
                       \A i \in 1..Len(ws[1]) :
                           c.row_dicts[k][ws[1][i].text]
                               = TextInColumn(ws[k + 1], Letters(Val(ws[1][i].ref)))

\* A data row with a cell in column A and one in column AA, and none in
\* column Z between them, was imported: its log file is the text of AA,
\* its status is blank.
C23_Witness ==
    /\ last_call # None
    /\ Val(last_call).op = "import_run_registry"
    /\ Val(last_call).count = Some(1)
    /\ Len(Val(last_call).file) = 2
    /\ Len(Val(last_call).file[2]) = 2
    /\ Len(Val(last_call).row_values[2]) = 27
    /\ Val(last_call).row_dicts[1][<<"test", " ", "status">>] = <<>>
    /\ Val(last_call).row_dicts[1][<<"log", " ", "file">>] = NameB
    /\ run_registry[1].log_file_ref = Some(NameB)

---------------------------------------------------------------------------
\* The time zone of a device log.

\* The lines of the log that carry a tz(N) or +CCLK hint, by line number.
HintAt(lines) == {i \in 1..Len(lines) : lines[i].kind \in {"tz", "cclk"}}

\* The lines of the log that match the sample pattern, by line number.
SampleAt(lines) == {i \in 1..Len(lines) : lines[i].kind = "sample"}

\* C24: in a device log that parses, the first line in file order with a
\* tz(N) or +CCLK hint gives every sample of the file the offset of N
\* quarter-hours, the samples on lines before the hint included; without a
\* hint every sample has the offset of the default zone at its wall clock.
C24_FirstHintWins ==
    (probe.stage = "device" /\ probe.file.fmt = "text" /\ probe.parsed.err = "") =>
        LET lines == probe.file.body
            rs == probe.parsed.readings
        IN /\ Len(rs) = Cardinality(SampleAt(lines))
           /\ \A i \in 1..Len(rs) :
                 Val(rs[i].timestamp).offset =
                     IF HintAt(lines) = {}
                     THEN (IF Val(rs[i].timestamp).wall < DstEnd
                           THEN SummerOffset ELSE WinterOffset)
                     ELSE lines[CHOOSE h \in HintAt(lines) :
                                   \A g \in HintAt(lines) : h <= g].q

\* A log with a sample, two different hints and another sample was parsed:
\* both samples carry the offset of the first hint.
C24_Witness ==
    /\ probe.stage = "device"
    /\ probe.file.fmt = "text"
    /\ probe.parsed.err = ""
    /\ Len(probe.file.body) = 4
    /\ probe.file.body[2] = CclkLine(-8)
    /\ probe.file.body[3] = TzLine(4)
    /\ Len(probe.parsed.readings) = 2
    /\ \A i \in 1..2 : Val(probe.parsed.readings[i].timestamp).offset = -8

---------------------------------------------------------------------------
\* The committed tables between the calls and the loop iterations.

\* The registry entries whose run_id is the run.
EntriesOfRun(run_id) ==
    {j \in 1..Len(run_registry) : run_registry[j].run_id = Some(run_id)}

\* C25: after any sequence of import_run_registry and ingest_logs calls,
\* successful or failed, every run has at least one reading and is the
\* run_id of exactly one registry entry, that entry has the external_run_id
\* of the run, and no two registry entries reference the same run.
C25_RunsLinkedOnce ==
    /\ \A i \in 1..Len(runs) :
          /\ \E k \in 1..Len(readings) : readings[k].run_id = runs[i].run_id
          /\ Cardinality(EntriesOfRun(runs[i].run_id)) = 1
          /\ \A j \in EntriesOfRun(runs[i].run_id) :
                run_registry[j].external_run_id = runs[i].external_run_id
    /\ \A j, k \in 1..Len(run_registry) :
          (run_registry[j].run_id # None /\ run_registry[j].run_id = run_registry[k].run_id)
              => j = k

\* Two runs are in the tables, the second committed by a call that then
\* failed on a later file.
C25_Witness ==
    /\ Len(runs) = 2
    /\ pc = "raised"
    /\ processed = 1
    /\ EntriesOfRun(1) # {}
    /\ EntriesOfRun(2) # {}

====
